---------------------------- MODULE Spec2Model ----------------------------
(***************************************************************************)
(* Model of the anonymization pipeline of zukii-python                     *)
(* (app/services/anonymization_service.py, class AnonymizationService).    *)
(*                                                                         *)
(* A Python string is a sequence of characters; a character is a TLA+      *)
(* string token ("a", "@", ...; the letter e-acute is the token            *)
(* "e_acute").  A cell of a pandas Series is a record [kind, s]: kind is   *)
(* "null" (NaN/None), "str" or "int", and s is what str() gives for it.    *)
(* A Series is a sequence of cells, a DataFrame a sequence of columns      *)
(* [name, values] with unique names and one common row count.              *)
(***************************************************************************)
EXTENDS Integers, Sequences, FiniteSets, TLC

(***************************************************************************)
(* Bounds of the model.                                                    *)
(***************************************************************************)
MaxCols == 2
MaxRows == 10

(***************************************************************************)
(* Python str primitives.                                                  *)
(***************************************************************************)
Digits == <<"0", "1", "2", "3", "4", "5", "6", "7", "8", "9">>

HexDigits ==
    <<"0", "1", "2", "3", "4", "5", "6", "7", "8", "9", "a", "b", "c", "d", "e", "f">>

UpperLetters ==
    <<"A", "B", "C", "D", "E", "F", "G", "H", "I", "J", "K", "L", "M", "N", "O", "P",
      "Q", "R", "S", "T", "U", "V", "W", "X", "Y", "Z", "E_acute">>

LowerLetters ==
    <<"a", "b", "c", "d", "e", "f", "g", "h", "i", "j", "k", "l", "m", "n", "o", "p",
      "q", "r", "s", "t", "u", "v", "w", "x", "y", "z", "e_acute">>

Punctuation ==
    <<"@", ".", "_", "-", "+", " ", ",", ":", "*", "\\", "{", "}", "[", "]", "(", ")",
      "|", "?", "%">>

Alphabet == Digits \o LowerLetters \o UpperLetters \o Punctuation

IndexOf(c, seq) == CHOOSE i \in 1..Len(seq) : seq[i] = c

IsIn(c, seq) == \E i \in 1..Len(seq) : seq[i] = c

IsDigit(c) == IsIn(c, Digits)

\* str.lower(), one character
LowerChar(c) == IF IsIn(c, UpperLetters) THEN LowerLetters[IndexOf(c, UpperLetters)] ELSE c

\* str.lower()
Lower(s) == [i \in 1..Len(s) |-> LowerChar(s[i])]

\* the Python expression  sub in s
Contains(sub, s) ==
    \E i \in 0..(Len(s) - Len(sub)) : SubSeq(s, i + 1, i + Len(sub)) = sub

\* '*' * n   (the empty string when n <= 0)
Stars(n) == [i \in 1..n |-> "*"]

\* re.sub(r'\D', '', s)
DigitsOnly(s) == SelectSeq(s, IsDigit)

\* position of the first occurrence of character c in s, 0 when absent
RECURSIVE FindFrom(_, _, _)
FindFrom(c, s, i) ==
    IF i > Len(s) THEN 0
    ELSE IF s[i] = c THEN i
    ELSE FindFrom(c, s, i + 1)

Find(c, s) == FindFrom(c, s, 1)

\* s.split(c): the list of the parts of s between occurrences of character c
RECURSIVE Split(_, _)
Split(s, c) ==
    LET p == Find(c, s)
    IN  IF p = 0 THEN <<s>>
        ELSE <<SubSeq(s, 1, p - 1)>> \o Split(SubSeq(s, p + 1, Len(s)), c)

\* s.split(c, 1) for an s that contains c
SplitOnce(s, c) ==
    LET p == Find(c, s)
    IN  <<SubSeq(s, 1, p - 1), SubSeq(s, p + 1, Len(s))>>

\* c.join(parts)
RECURSIVE Join(_, _)
Join(parts, c) ==
    IF Len(parts) = 0 THEN <<>>
    ELSE IF Len(parts) = 1 THEN parts[1]
    ELSE parts[1] \o <<c>> \o Join(Tail(parts), c)

\* s.strip()
RECURSIVE LStrip(_)
LStrip(s) == IF Len(s) > 0 /\ s[1] = " " THEN LStrip(Tail(s)) ELSE s

RECURSIVE RStrip(_)
RStrip(s) ==
    IF Len(s) > 0 /\ s[Len(s)] = " " THEN RStrip(SubSeq(s, 1, Len(s) - 1)) ELSE s

Strip(s) == RStrip(LStrip(s))

\* str(n) for a natural number n
RECURSIVE IntToStr(_)
IntToStr(n) ==
    IF n < 10 THEN <<Digits[n + 1]>>
    ELSE IntToStr(n \div 10) \o <<Digits[(n % 10) + 1]>>

\* format(n, '06d'): zero-padded to at least six digits
Pad6(n) ==
    LET d == IntToStr(n)
    IN  [i \in 1..(6 - Len(d)) |-> "0"] \o d

(***************************************************************************)
(* Cells and series.                                                       *)
(***************************************************************************)
NaN == [kind |-> "null", s |-> <<"n", "a", "n">>]

StrCell(s) == [kind |-> "str", s |-> s]

IntCell(n) == [kind |-> "int", s |-> IntToStr(n)]

\* pd.isna(x)
IsNa(x) == x.kind = "null"

\* str(x)
Str(x) == x.s

\* series.nunique(): the number of distinct non-null values
Nunique(series) ==
    Cardinality({series[i] : i \in {j \in 1..Len(series) : ~IsNa(series[j])}})

\* series.dropna()
DropNa(series) == SelectSeq(series, LAMBDA x : ~IsNa(x))

\* series.head(n)
Head_(series, n) == SubSeq(series, 1, IF Len(series) < n THEN Len(series) ELSE n)

(***************************************************************************)
(* _hash_value: hashlib.sha256(salt + str(value)).hexdigest()[:8].         *)
(* SHA-256 is not computed here: the digest is a deterministic function of *)
(* the salted text that yields eight hexadecimal characters, which is all  *)
(* the callers rely on.                                                    *)
(***************************************************************************)
Salt == <<"z", "u", "k", "i", "i", "_", "a", "n", "o", "n", "_", "2", "0", "2", "4">>

\* the code of each character
CharCode == [c \in {Alphabet[i] : i \in 1..Len(Alphabet)} |-> IndexOf(c, Alphabet)]

RECURSIVE Digest(_, _, _, _)
Digest(text, i, mult, acc) ==
    IF i > Len(text) THEN acc
    ELSE Digest(text, i + 1, mult, (acc * mult + CharCode[text[i]] + i) % 65521)

\* the digest state after the salt
SaltDigest31 == Digest(Salt, 1, 31, 7)

SaltDigest17 == Digest(Salt, 1, 17, 11)

Hex4(n) ==
    <<HexDigits[((n \div 4096) % 16) + 1], HexDigits[((n \div 256) % 16) + 1],
      HexDigits[((n \div 16) % 16) + 1], HexDigits[(n % 16) + 1]>>

HashValue(value) ==
    Hex4(Digest(value, 1, 31, SaltDigest31)) \o Hex4(Digest(value, 1, 17, SaltDigest17))

(***************************************************************************)
(* The masking transforms, one value at a time (the inner functions of     *)
(* _anonymize_emails .. _anonymize_generic).                               *)
(***************************************************************************)
anonymize_email(email) ==
    IF IsNa(email) THEN email
    ELSE LET email_str == Str(email)
         IN  IF IsIn("@", email_str)
             THEN LET parts == SplitOnce(email_str, "@")
                      username == parts[1]
                      domain == parts[2]
                      anonymized_username ==
                          IF Len(username) > 2
                          THEN <<username[1]>> \o Stars(Len(username) - 2)
                               \o <<username[Len(username)]>>
                          ELSE Stars(Len(username))
                      domain_parts == Split(domain, ".")
                      anonymized_domain ==
                          IF Len(domain_parts) >= 2
                          THEN Stars(Len(domain_parts[1])) \o <<".">>
                               \o Join(Tail(domain_parts), ".")
                          ELSE Stars(Len(domain))
                  IN  StrCell(anonymized_username \o <<"@">> \o anonymized_domain)
             ELSE StrCell(HashValue(email_str))
\* a mutation of DigitWindow: the pd.isna test is lost
DigitWindowNoNullTest(value, k) ==
    LET digits_only == DigitsOnly(Str(value))
    IN  IF Len(digits_only) >= 2 * k
        THEN StrCell(SubSeq(digits_only, 1, k) \o Stars(Len(digits_only) - 2 * k)
                     \o SubSeq(digits_only, Len(digits_only) - k + 1, Len(digits_only)))
        ELSE StrCell(Stars(Len(digits_only)))

\* a mutation of DigitWindow: the window is kept only above 2k digits
DigitWindowAbove(value, k) ==
    IF IsNa(value) THEN value
    ELSE LET digits_only == DigitsOnly(Str(value))
         IN  IF Len(digits_only) > 2 * k
             THEN StrCell(SubSeq(digits_only, 1, k) \o Stars(Len(digits_only) - 2 * k)
                          \o SubSeq(digits_only, Len(digits_only) - k + 1,
                                    Len(digits_only)))
             ELSE StrCell(Stars(Len(digits_only)))

\* the common body of anonymize_phone (k = 2), anonymize_ssn (k = 3) and
\* anonymize_financial (k = 4)
DigitWindow(value, k) ==
    IF IsNa(value) THEN value
    ELSE LET digits_only == DigitsOnly(Str(value))
         IN  IF Len(digits_only) >= 2 * k
             THEN StrCell(SubSeq(digits_only, 1, k) \o Stars(Len(digits_only) - 2 * k)
                          \o SubSeq(digits_only, Len(digits_only) - k + 1,
                                    Len(digits_only)))
             ELSE StrCell(Stars(Len(digits_only)))

anonymize_phone(phone) == DigitWindow(phone, 2)

anonymize_ssn(ssn) == DigitWindow(ssn, 3)

anonymize_financial(data) == DigitWindow(data, 4)

anonymize_address(address) ==
    IF IsNa(address) THEN address
    ELSE LET address_str == Str(address)
             parts == Split(address_str, ",")
         IN  IF Len(parts) >= 2
             THEN StrCell(<<"*", "*", "*", ",", " ">> \o Strip(parts[Len(parts)]))
             ELSE StrCell(HashValue(address_str))

anonymize_network(network) ==
    IF IsNa(network) THEN network
    ELSE LET network_str == Str(network)
             dot_parts == Split(network_str, ".")
             colon_parts == Split(network_str, ":")
         IN  IF IsIn(".", network_str)
             THEN IF Len(dot_parts) = 4
                  THEN StrCell(dot_parts[1] \o <<".">> \o dot_parts[2]
                               \o <<".", "*", ".", "*">>)
                  ELSE StrCell(HashValue(network_str))
             ELSE IF IsIn(":", network_str)
             THEN IF Len(colon_parts) = 6
                  THEN StrCell(colon_parts[1] \o <<":">> \o colon_parts[2]
                               \o <<":", "*", ":", "*", ":", "*", ":", "*">>)
                  ELSE StrCell(HashValue(network_str))
             ELSE StrCell(HashValue(network_str))

anonymize_generic(x) == IF ~IsNa(x) THEN StrCell(HashValue(Str(x))) ELSE x

(***************************************************************************)
(* The masking transforms on a whole column: series.apply(f).              *)
(***************************************************************************)
AnonymizeEmails(series) == [i \in 1..Len(series) |-> anonymize_email(series[i])]

AnonymizePhones(series) == [i \in 1..Len(series) |-> anonymize_phone(series[i])]

AnonymizeSsn(series) == [i \in 1..Len(series) |-> anonymize_ssn(series[i])]

AnonymizeFinancial(series) == [i \in 1..Len(series) |-> anonymize_financial(series[i])]

AnonymizeAddresses(series) == [i \in 1..Len(series) |-> anonymize_address(series[i])]

AnonymizeNetwork(series) == [i \in 1..Len(series) |-> anonymize_network(series[i])]

AnonymizeGeneric(series) == [i \in 1..Len(series) |-> anonymize_generic(series[i])]

\* f"ID_{n:06d}"
IdToken(n) == <<"I", "D", "_">> \o Pad6(n)

\* the dictionary a fresh call of _anonymize_ids starts from
EmptyIdMapping == [k \in {} |-> <<>>]

\* anonymize_id on rows i.. of the series; id_mapping is the dictionary of
\* the enclosing _anonymize_ids call, updated as the rows are visited.
RECURSIVE AnonymizeIdsFrom(_, _, _)
AnonymizeIdsFrom(series, i, id_mapping) ==
    IF i > Len(series) THEN <<>>
    ELSE IF IsNa(series[i])
    THEN <<series[i]>> \o AnonymizeIdsFrom(series, i + 1, id_mapping)
    ELSE LET id_str == Str(series[i])
             mapping ==
                 IF id_str \notin DOMAIN id_mapping
                 THEN id_mapping @@ (id_str :> IdToken(Cardinality(DOMAIN id_mapping) + 1))
                 ELSE id_mapping
         IN  <<StrCell(mapping[id_str])>> \o AnonymizeIdsFrom(series, i + 1, mapping)

AnonymizeIds(series) == AnonymizeIdsFrom(series, 1, EmptyIdMapping)

(***************************************************************************)
(* Keyword tables.                                                         *)
(***************************************************************************)
KwEmail == <<"e", "m", "a", "i", "l">>
KwMail == <<"m", "a", "i", "l">>
KwPhone == <<"p", "h", "o", "n", "e">>
KwTelephone == <<"t", "e_acute", "l", "e_acute", "p", "h", "o", "n", "e">>
KwTel == <<"t", "e", "l">>
KwMobile == <<"m", "o", "b", "i", "l", "e">>
KwSsn == <<"s", "s", "n">>
KwSocial == <<"s", "o", "c", "i", "a", "l">>
KwSecurity == <<"s", "e", "c", "u", "r", "i", "t", "y">>
KwNumero == <<"n", "u", "m", "e_acute", "r", "o">>
KwNumber == <<"n", "u", "m", "b", "e", "r">>
KwCredit == <<"c", "r", "e", "d", "i", "t">>
KwCard == <<"c", "a", "r", "d">>
KwCarte == <<"c", "a", "r", "t", "e">>
KwIban == <<"i", "b", "a", "n">>
KwAccount == <<"a", "c", "c", "o", "u", "n", "t">>
KwCompte == <<"c", "o", "m", "p", "t", "e">>
KwAddress == <<"a", "d", "d", "r", "e", "s", "s">>
KwAdresse == <<"a", "d", "r", "e", "s", "s", "e">>
KwPostal == <<"p", "o", "s", "t", "a", "l">>
KwZip == <<"z", "i", "p">>
KwCode == <<"c", "o", "d", "e">>
KwIp == <<"i", "p">>
KwMac == <<"m", "a", "c">>
KwId == <<"i", "d">>
KwIdentifier == <<"i", "d", "e", "n", "t", "i", "f", "i", "e", "r">>
KwIdentifiant == <<"i", "d", "e", "n", "t", "i", "f", "i", "a", "n", "t">>
KwPassword == <<"p", "a", "s", "s", "w", "o", "r", "d">>
KwMotDePasse == <<"m", "o", "t", "_", "d", "e", "_", "p", "a", "s", "s", "e">>
KwSecret == <<"s", "e", "c", "r", "e", "t">>
KwToken == <<"t", "o", "k", "e", "n">>

\* self.sensitive_column_keywords
sensitive_column_keywords ==
    <<KwEmail, KwMail, KwPhone, KwTelephone, KwTel, KwMobile,
      KwSsn, KwSocial, KwSecurity, KwNumero, KwNumber,
      KwCredit, KwCard, KwCarte, KwIban, KwAccount, KwCompte,
      KwAddress, KwAdresse, KwPostal, KwZip, KwCode,
      KwIp, KwMac, KwId, KwIdentifier, KwIdentifiant,
      KwPassword, KwMotDePasse, KwSecret, KwToken>>

\* any(keyword in column_lower for keyword in keywords)
AnyKeyword(column_lower, keywords) ==
    \E i \in 1..Len(keywords) : Contains(keywords[i], column_lower)

(***************************************************************************)
(* _anonymize_column: the transform is chosen from the column name.        *)
(***************************************************************************)
\* a mutation of AnonymizeColumnBranch: the network keywords are tested
\* before the address keywords
AnonymizeColumnBranchNetworkFirst(column_name) ==
    LET column_lower == Lower(column_name)
    IN  IF AnyKeyword(column_lower, <<KwEmail, KwMail>>)
        THEN "_anonymize_emails"
        ELSE IF AnyKeyword(column_lower, <<KwPhone, KwTelephone, KwTel, KwMobile>>)
        THEN "_anonymize_phones"
        ELSE IF AnyKeyword(column_lower, <<KwSsn, KwSocial, KwSecurity>>)
        THEN "_anonymize_ssn"
        ELSE IF AnyKeyword(column_lower, <<KwCredit, KwCard, KwCarte, KwIban>>)
        THEN "_anonymize_financial"
        ELSE IF AnyKeyword(column_lower, <<KwIp, KwMac>>)
        THEN "_anonymize_network"
        ELSE IF AnyKeyword(column_lower, <<KwAddress, KwAdresse, KwPostal, KwZip>>)
        THEN "_anonymize_addresses"
        ELSE IF AnyKeyword(column_lower, <<KwId, KwIdentifier, KwIdentifiant>>)
        THEN "_anonymize_ids"
        ELSE "_anonymize_generic"

AnonymizeColumnBranch(column_name) ==
    LET column_lower == Lower(column_name)
    IN  IF AnyKeyword(column_lower, <<KwEmail, KwMail>>)
        THEN "_anonymize_emails"
        ELSE IF AnyKeyword(column_lower, <<KwPhone, KwTelephone, KwTel, KwMobile>>)
        THEN "_anonymize_phones"
        ELSE IF AnyKeyword(column_lower, <<KwSsn, KwSocial, KwSecurity>>)
        THEN "_anonymize_ssn"
        ELSE IF AnyKeyword(column_lower, <<KwCredit, KwCard, KwCarte, KwIban>>)
        THEN "_anonymize_financial"
        ELSE IF AnyKeyword(column_lower, <<KwAddress, KwAdresse, KwPostal, KwZip>>)
        THEN "_anonymize_addresses"
        ELSE IF AnyKeyword(column_lower, <<KwIp, KwMac>>)
        THEN "_anonymize_network"
        ELSE IF AnyKeyword(column_lower, <<KwId, KwIdentifier, KwIdentifiant>>)
        THEN "_anonymize_ids"
        ELSE "_anonymize_generic"

\* the call of the chosen transform
RunTransform(branch, series) ==
    CASE branch = "_anonymize_emails" -> AnonymizeEmails(series)
      [] branch = "_anonymize_phones" -> AnonymizePhones(series)
      [] branch = "_anonymize_ssn" -> AnonymizeSsn(series)
      [] branch = "_anonymize_financial" -> AnonymizeFinancial(series)
      [] branch = "_anonymize_addresses" -> AnonymizeAddresses(series)
      [] branch = "_anonymize_network" -> AnonymizeNetwork(series)
      [] branch = "_anonymize_ids" -> AnonymizeIds(series)
      [] branch = "_anonymize_generic" -> AnonymizeGeneric(series)

AnonymizeColumn(series, column_name) ==
    RunTransform(AnonymizeColumnBranch(column_name), series)

\* a mutation of GetAnonymizationMethod: the network keywords are tested
\* before the address keywords
GetAnonymizationMethodNetworkFirst(column_name) ==
    LET column_lower == Lower(column_name)
    IN  IF AnyKeyword(column_lower, <<KwEmail, KwMail>>)
        THEN "email_masking"
        ELSE IF AnyKeyword(column_lower, <<KwPhone, KwTelephone, KwTel, KwMobile>>)
        THEN "phone_masking"
        ELSE IF AnyKeyword(column_lower, <<KwSsn, KwSocial, KwSecurity>>)
        THEN "ssn_masking"
        ELSE IF AnyKeyword(column_lower, <<KwCredit, KwCard, KwCarte, KwIban>>)
        THEN "financial_masking"
        ELSE IF AnyKeyword(column_lower, <<KwIp, KwMac>>)
        THEN "network_masking"
        ELSE IF AnyKeyword(column_lower, <<KwAddress, KwAdresse, KwPostal, KwZip>>)
        THEN "address_masking"
        ELSE IF AnyKeyword(column_lower, <<KwId, KwIdentifier, KwIdentifiant>>)
        THEN "id_mapping"
        ELSE "hash_anonymization"

\* _get_anonymization_method
GetAnonymizationMethod(column_name) ==
    LET column_lower == Lower(column_name)
    IN  IF AnyKeyword(column_lower, <<KwEmail, KwMail>>)
        THEN "email_masking"
        ELSE IF AnyKeyword(column_lower, <<KwPhone, KwTelephone, KwTel, KwMobile>>)
        THEN "phone_masking"
        ELSE IF AnyKeyword(column_lower, <<KwSsn, KwSocial, KwSecurity>>)
        THEN "ssn_masking"
        ELSE IF AnyKeyword(column_lower, <<KwCredit, KwCard, KwCarte, KwIban>>)
        THEN "financial_masking"
        ELSE IF AnyKeyword(column_lower, <<KwAddress, KwAdresse, KwPostal, KwZip>>)
        THEN "address_masking"
        ELSE IF AnyKeyword(column_lower, <<KwIp, KwMac>>)
        THEN "network_masking"
        ELSE IF AnyKeyword(column_lower, <<KwId, KwIdentifier, KwIdentifiant>>)
        THEN "id_mapping"
        ELSE "hash_anonymization"

(***************************************************************************)
(* _contains_sensitive_data.                                               *)
(***************************************************************************)
\* self.patterns, in dictionary order: the texts of the regular expressions
patterns ==
  <<
    (* email *)
    <<"\\", "b", "[", "A", "-", "Z", "a", "-", "z", "0", "-", "9", ".", "_", "%", "+",
      "-", "]", "+", "@", "[", "A", "-", "Z", "a", "-", "z", "0", "-", "9", ".", "-",
      "]", "+", "\\", ".", "[", "A", "-", "Z", "|", "a", "-", "z", "]", "{", "2", ",",
      "}", "\\", "b">>,
    (* phone_fr *)
    <<"(", "\\", "+", "3", "3", "|", "0", ")", "[", "1", "-", "9", "]", "(", "\\", "d",
      "{", "8", "}", ")">>,
    (* phone_intl *)
    <<"\\", "+", "[", "1", "-", "9", "]", "\\", "d", "{", "1", ",", "1", "4", "}">>,
    (* ssn_fr *)
    <<"\\", "b", "\\", "d", "{", "1", "5", "}", "\\", "b">>,
    (* credit_card *)
    <<"\\", "b", "\\", "d", "{", "4", "}", "[", "-", " ", "]", "?", "\\", "d", "{", "4",
      "}", "[", "-", " ", "]", "?", "\\", "d", "{", "4", "}", "[", "-", " ", "]", "?",
      "\\", "d", "{", "4", "}", "\\", "b">>,
    (* iban *)
    <<"\\", "b", "[", "A", "-", "Z", "]", "{", "2", "}", "\\", "d", "{", "2", "}", "[",
      "A", "-", "Z", "0", "-", "9", "]", "{", "4", "}", "\\", "d", "{", "7", "}", "(",
      "[", "A", "-", "Z", "0", "-", "9", "]", "?", ")", "{", "0", ",", "1", "6", "}",
      "\\", "b">>,
    (* postal_code_fr *)
    <<"\\", "b", "\\", "d", "{", "5", "}", "\\", "b">>,
    (* ip_address *)
    <<"\\", "b", "\\", "d", "{", "1", ",", "3", "}", "\\", ".", "\\", "d", "{", "1",
      ",", "3", "}", "\\", ".", "\\", "d", "{", "1", ",", "3", "}", "\\", ".", "\\",
      "d", "{", "1", ",", "3", "}", "\\", "b">>,
    (* mac_address *)
    <<"\\", "b", "(", "[", "0", "-", "9", "A", "-", "F", "a", "-", "f", "]", "{", "2",
      "}", "[", ":", "-", "]", ")", "{", "5", "}", "(", "[", "0", "-", "9", "A", "-",
      "F", "a", "-", "f", "]", "{", "2", "}", ")", "\\", "b">>
  >>

\* the number of non-null values sampled: series.dropna().head(100)
SampleSize == 100

\* re.search(re.escape(pattern), text): re.escape puts a backslash before
\* every special character of pattern, so the escaped expression matches
\* the text of the pattern itself, character by character, and nothing else.
EscapedPatternFound(pattern, text) == Contains(pattern, text)

\* sample_data.str.contains(escaped_pattern, regex=True, na=False).any()
\* for some pattern of self.patterns
ContentRule(series) ==
    LET sample == Head_(DropNa(series), SampleSize)
        sample_data == [i \in 1..Len(sample) |-> Str(sample[i])]
    IN  \E p \in 1..Len(patterns) :
            \E i \in 1..Len(sample_data) :
                EscapedPatternFound(patterns[p], sample_data[i])

\* for keyword in self.sensitive_column_keywords: if keyword in column_lower
NameRule(column_name) == AnyKeyword(Lower(column_name), sensitive_column_keywords)
\* a mutation of CardinalityRule: >= instead of >
CardinalityRuleAtLeast(series) == 10 * Nunique(series) >= 9 * Len(series)

\* series.nunique() / len(series) > 0.9 for a series with at least one row.
\* Both operands are integers below 2^53 and the quotient is correctly
\* rounded, so the float comparison agrees with the comparison of
\* 10 * nunique with 9 * len.
CardinalityRule(series) == 10 * Nunique(series) > 9 * Len(series)

\* The result of a call is a record: exc is "none" and value the returned
\* value, or exc names the exception raised.
Returns(v) == [exc |-> "none", value |-> v]

Raises(e) == [exc |-> e, value |-> FALSE]
\* a mutation of ContainsSensitiveData: the cardinality is computed before
\* the name is looked at
ContainsSensitiveDataCardinalityFirst(series, column_name) ==
    IF Len(series) = 0 THEN Raises("ZeroDivisionError")
    ELSE IF CardinalityRule(series) THEN Returns(TRUE)
    ELSE IF NameRule(column_name) THEN Returns(TRUE)
    ELSE IF ContentRule(series) THEN Returns(TRUE)
    ELSE Returns(FALSE)

ContainsSensitiveData(series, column_name) ==
    IF NameRule(column_name) THEN Returns(TRUE)
    ELSE IF ContentRule(series) THEN Returns(TRUE)
    ELSE IF Len(series) = 0 THEN Raises("ZeroDivisionError")
    ELSE IF CardinalityRule(series) THEN Returns(TRUE)
    ELSE Returns(FALSE)

(***************************************************************************)
(* _calculate_data_loss.  A float is modelled by the rational number       *)
(* [num, den] it approximates, in lowest terms with den > 0.               *)
(***************************************************************************)
RECURSIVE Gcd(_, _)
Gcd(a, b) == IF b = 0 THEN a ELSE Gcd(b, a % b)

Abs(n) == IF n < 0 THEN -n ELSE n

Rat(num, den) ==
    LET g == Gcd(Abs(num), den)
    IN  [num |-> num \div g, den |-> den \div g]

Zero == Rat(0, 1)

RatAdd(a, b) ==
    LET den == (a.den \div Gcd(a.den, b.den)) * b.den
    IN  Rat(a.num * (den \div a.den) + b.num * (den \div b.den), den)

\* the sum of len(str(x)) over the rows of the series; divided by the row
\* count it is series.astype(str).str.len().mean()
RECURSIVE TotalLength(_)
TotalLength(series) ==
    IF Len(series) = 0 THEN 0
    ELSE Len(Str(Head(series))) + TotalLength(Tail(series))

\* a mutation of CalculateDataLoss: the two ratios are not subtracted from 1
CalculateDataLossRatios(original, anonymized) ==
    IF Len(original) = 0 THEN Zero
    ELSE LET original_unique == Nunique(original)
             anonymized_unique == Nunique(anonymized)
             original_total == TotalLength(original)
             anonymized_total == TotalLength(anonymized)
         IN  IF original_unique = 0 THEN Zero
             ELSE IF original_total = 0
             THEN Rat(7 * anonymized_unique, 10 * original_unique)
             ELSE Rat(7 * anonymized_unique * original_total
                      + 3 * anonymized_total * original_unique,
                      10 * original_unique * original_total)

CalculateDataLoss(original, anonymized) ==
    IF Len(original) = 0 THEN Zero
    ELSE LET original_unique == Nunique(original)
             anonymized_unique == Nunique(anonymized)
             original_total == TotalLength(original)
             anonymized_total == TotalLength(anonymized)
         IN  IF original_unique = 0 THEN Zero
             ELSE IF original_total = 0
             \* length_loss = 0.0
             THEN Rat(7 * (original_unique - anonymized_unique), 10 * original_unique)
             \* 0.7 * (1 - au / ou) + 0.3 * (1 - (at / n) / (ot / n))
             ELSE Rat(7 * (original_unique - anonymized_unique) * original_total
                      + 3 * (original_total - anonymized_total) * original_unique,
                      10 * original_unique * original_total)

(***************************************************************************)
(* DataFrames.  A frame is a sequence of columns [name, values]; frames    *)
(* live in a heap and are held by reference, as Python objects are.        *)
(***************************************************************************)
\* df.columns
Columns(frame) == [i \in 1..Len(frame) |-> frame[i].name]

\* df[column]
GetColumn(frame, column) ==
    frame[CHOOSE i \in 1..Len(frame) : frame[i].name = column].values

\* a mutation of SetColumn: the values are assigned to every column
SetColumnAll(frame, column, values) ==
    [i \in 1..Len(frame) |-> [name |-> frame[i].name, values |-> values]]

\* df[column] = values
SetColumn(frame, column, values) ==
    [i \in 1..Len(frame) |->
        IF frame[i].name = column THEN [name |-> column, values |-> values]
        ELSE frame[i]]
\* a mutation of DataFrameCopy: df_anon = df, the same object
DataFrameAlias(ref) == ref

\* the reference df.copy() returns: a new object
DataFrameCopy(ref) == "copy"

\* anonymization_report as created at the start of anonymize_dataframe
\* (processing_time, a wall-clock reading, is left out)
NewReport ==
    [columns_processed |-> 0,
     columns_anonymized |-> 0,
     sensitive_columns_detected |-> <<>>,
     anonymization_methods |-> [c \in {} |-> Zero],
     data_loss_estimate |-> Zero]

\* a mutation of CountProcessed: the column is not counted
CountProcessedNot(report) == report

\* anonymization_report["columns_processed"] += 1
CountProcessed(report) == [report EXCEPT !.columns_processed = @ + 1]

\* a mutation of RecordSensitive: the column is put at the head of the list
RecordSensitiveAtHead(report, column) ==
    [report EXCEPT !.sensitive_columns_detected = <<column>> \o @,
                   !.columns_anonymized = @ + 1]

\* anonymization_report["sensitive_columns_detected"].append(column)
\* anonymization_report["columns_anonymized"] += 1
RecordSensitive(report, column) ==
    [report EXCEPT !.sensitive_columns_detected = Append(@, column),
                   !.columns_anonymized = @ + 1]

\* a mutation of RecordDataLoss: the estimate is the mean of the estimate
\* so far and the column's data loss
RecordDataLossAveraged(report, column, data_loss) ==
    [report EXCEPT
        !.data_loss_estimate =
            LET sum == RatAdd(@, data_loss) IN Rat(sum.num, 2 * sum.den),
        !.anonymization_methods =
            (column :> [method |-> GetAnonymizationMethod(column),
                        data_loss |-> data_loss]) @@ @]

\* anonymization_report["data_loss_estimate"] += data_loss
\* anonymization_report["anonymization_methods"][column] = {...}
RecordDataLoss(report, column, data_loss) ==
    [report EXCEPT
        !.data_loss_estimate = RatAdd(@, data_loss),
        !.anonymization_methods =
            (column :> [method |-> GetAnonymizationMethod(column),
                        data_loss |-> data_loss]) @@ @]

\* One iteration of  for column in df_anon.columns  on the working frame:
\* the frame and report after it, the exception it raised if any, and the
\* transform _anonymize_column ran ("none" when the column was not masked).
ColumnStep(frame, report, column) ==
    LET counted == CountProcessed(report)
        sensitive == ContainsSensitiveData(GetColumn(frame, column), column)
    IN  IF sensitive.exc # "none"
        THEN [exc |-> sensitive.exc, frame |-> frame, report |-> counted,
              branch |-> "none"]
        ELSE IF ~sensitive.value
        THEN [exc |-> "none", frame |-> frame, report |-> counted, branch |-> "none"]
        ELSE LET original_values == GetColumn(frame, column)
                 masked == SetColumn(frame, column,
                                     AnonymizeColumn(GetColumn(frame, column), column))
                 data_loss == CalculateDataLoss(original_values,
                                                GetColumn(masked, column))
             IN  [exc |-> "none",
                  frame |-> masked,
                  report |-> RecordDataLoss(RecordSensitive(counted, column),
                                            column, data_loss),
                  branch |-> AnonymizeColumnBranch(column)]
\* a mutation of ExceptClause: the error is swallowed and what was done so
\* far is returned
ExceptSwallow(exc, ref, report) == [kind |-> "returned", df |-> ref, report |-> report]

\* except Exception as e: log_error(...); raise
ExceptClause(exc, ref, report) == [kind |-> "raised", exc |-> exc]

\* return df_anon, anonymization_report
ReturnValue(ref, report) == [kind |-> "returned", df |-> ref, report |-> report]

(***************************************************************************)
(* The datasets the calls are made on.                                     *)
(***************************************************************************)
Cycle(vals, i) == vals[((i - 1) % Len(vals)) + 1]

EmailValues ==
    <<StrCell(<<"a", "n", "n", "@", "x", ".", "c", "o", "m">>),
      NaN,
      StrCell(<<"b", "o", "@", "m", "a", "i", "l", ".", "y", ".", "o", "r", "g">>),
      StrCell(<<"b", "o", "b">>)>>

PhoneValues ==
    <<StrCell(<<"+", "3", "3", "6", "1", "2", "3", "4", "5", "6", "7", "8">>),
      StrCell(<<"0", "6", " ", "1", "2", " ", "3", "4", " ", "5", "6", " ", "7", "8">>),
      NaN,
      StrCell(<<"1", "2", "3">>)>>

AddressValues ==
    <<StrCell(<<"1", "2", " ", "r", "u", "e", " ", "A", ",", " ", "P", "a", "r", "i", "s">>),
      StrCell(<<"L", "y", "o", "n">>),
      NaN,
      StrCell(<<",", " ", "P", "a", "r", "i", "s">>)>>

NetworkValues ==
    <<StrCell(<<"1", "9", "2", ".", "1", "6", "8", ".", "1", ".", "1", "0">>),
      StrCell(<<"a", "a", ":", "b", "b", ":", "c", "c", ":", "d", "d", ":", "e", "e", ":",
                "f", "f">>),
      StrCell(<<"h", "o", "s", "t">>),
      NaN>>

\* row i of n of a column of the given shape
ShapeCell(shape, i, n) ==
    CASE shape = "distinct" -> StrCell(<<"u">> \o IntToStr(i))
      [] shape = "distinct_rev" -> StrCell(<<"u">> \o IntToStr(n + 1 - i))
      [] shape = "one_repeat" -> StrCell(<<"u">> \o IntToStr(IF i = n THEN 1 ELSE i))
      [] shape = "all_null" -> NaN
      [] shape = "same_email" -> StrCell(<<"a", "@", "x", ".", "c", "o", "m">>)
      [] shape = "emails" -> Cycle(EmailValues, i)
      [] shape = "phones" -> Cycle(PhoneValues, i)
      [] shape = "addresses" -> Cycle(AddressValues, i)
      [] shape = "network" -> Cycle(NetworkValues, i)
      [] shape = "postal" -> StrCell(<<"7", "5", "0", "0", "1">>)
      [] shape = "ints" -> IntCell(30 + 12 * (i - 1))
      [] shape = "flags" -> IntCell(i % 2)
      [] shape = "tokens" -> StrCell(IdToken(i))
      [] shape = "pattern_text" -> StrCell(patterns[7])

ShapeValues(shape, n) == [i \in 1..n |-> ShapeCell(shape, i, n)]

NameEmail == KwEmail
NamePhoneEmail == <<"P", "h", "o", "n", "e", "_", "E", "m", "a", "i", "l">>
NamePhone == KwPhone
NameSsn == KwSsn
NameZip == KwZip
NameCard == KwCard
NameIp == KwIp
NameUserId == <<"u", "s", "e", "r", "_", "i", "d">>
NameOrderId == <<"O", "r", "d", "e", "r", "_", "I", "D">>
NameContact == <<"c", "o", "n", "t", "a", "c", "t">>
NameAge == <<"a", "g", "e">>
NameName == <<"n", "a", "m", "e">>

\* the columns a dataset is made of: a name and the shape of its values
ColumnPool ==
    { <<NameEmail, "emails">>, <<NameEmail, "all_null">>,
      <<NamePhoneEmail, "emails">>,
      <<NamePhone, "phones">>,
      <<NameSsn, "phones">>,
      <<NameCard, "phones">>,
      <<NameZip, "postal">>, <<NameZip, "addresses">>,
      <<NameIp, "network">>,
      <<NameUserId, "distinct">>, <<NameUserId, "tokens">>, <<NameUserId, "one_repeat">>,
      <<NameOrderId, "distinct_rev">>, <<NameOrderId, "tokens">>,
      <<NameContact, "same_email">>, <<NameContact, "emails">>,
      <<NameContact, "pattern_text">>,
      <<NameAge, "ints">>, <<NameAge, "flags">>, <<NameAge, "all_null">>,
      <<NameName, "distinct">>, <<NameName, "one_repeat">> }

RowCounts == {0, 3, MaxRows}

\* the selections of k columns of the pool under distinct names, in any order
Selections(k) ==
    { c \in [1..k -> ColumnPool] : \A i, j \in 1..k : i # j => c[i][1] # c[j][1] }

\* the dataset of the selected columns, all with n rows
Dataset(cols, n) ==
    [i \in 1..Len(cols) |-> [name |-> cols[i][1], values |-> ShapeValues(cols[i][2], n)]]

(***************************************************************************)
(* One call of anonymize_dataframe(df).                                    *)
(***************************************************************************)
NoFrame == <<>>

VARIABLES
    heap,                   \* the DataFrame objects, by reference
    input,                  \* what the caller's DataFrame held when the call was made
    df_anon,                \* the reference the local df_anon holds
    anonymization_report,   \* the local anonymization_report
    column_index,           \* position of the for loop in df_anon.columns
    applied,                \* column -> the transform _anonymize_column ran on it
    pc,                     \* "idle", "loop" or "done"
    result,                 \* what the caller gets: a returned pair or an exception
    calls,                  \* two calls: call -> its locals, position and result
    identified,             \* what _identify_sensitive_columns(df) gave, once called
    anonymize_data,         \* analyze_single_file: the argument anonymize_data
    include_charts,         \* analyze_single_file: the argument include_charts
    df_anonymized,          \* analyze_single_file: the reference df_anonymized holds
    ai_analysis,            \* analyze_single_file: ai_analysis["analysis"]
    analysis_pc,            \* analyze_single_file: the statement it is at
    response,               \* analyze_single_file: what the caller gets
    mask_column,            \* one column through lines 61-76: its name
    mask_series,            \* its values before masking (original_values)
    mask_output,            \* its values after _anonymize_column
    mask_branch,            \* the transform _anonymize_column ran
    mask_method,            \* the "method" recorded in anonymization_methods
    mask_loss,              \* the "data_loss" recorded in anonymization_methods
    mask_pc,                \* "flagged", "masked" or "recorded"
    profile_df,             \* DataProcessor: the DataFrame of the call
    profile_column,         \* detect_anomalies: its column argument
    profile_pc,             \* "start", or the method that was called
    profile_result,         \* what the method returned or raised
    files_data,             \* analyze_multiple_files: its files_data
    file_index,             \* the file its for loop is at
    all_results,            \* its all_results list
    files_metadata,         \* its files_metadata list
    files_pc,               \* "loop", "build" or "done"
    files_response          \* what the caller gets

vars == <<heap, input, df_anon, anonymization_report, column_index, applied, pc, result>>

\* the locals of the single call of Spec
varsCall == <<df_anon, anonymization_report, column_index, applied, pc, result>>

\* the variables of the two calls of SpecCalls
varsTwoCalls == <<calls, identified>>

\* the value of a variable the specification at hand does not use
NotUsed == <<>>

CallNotUsed ==
    /\ df_anon = NotUsed
    /\ anonymization_report = NotUsed
    /\ column_index = NotUsed
    /\ applied = NotUsed
    /\ pc = NotUsed
    /\ result = NotUsed

TwoCallsNotUsed ==
    /\ calls = NotUsed
    /\ identified = NotUsed

\* the variables of the call of analyze_single_file of SpecAnalysis
varsAnalysis ==
    <<anonymize_data, include_charts, df_anonymized, ai_analysis, analysis_pc, response>>

AnalysisNotUsed ==
    /\ anonymize_data = NotUsed
    /\ include_charts = NotUsed
    /\ df_anonymized = NotUsed
    /\ ai_analysis = NotUsed
    /\ analysis_pc = NotUsed
    /\ response = NotUsed

\* the variables of the single column of SpecMask
varsMask ==
    <<mask_column, mask_series, mask_output, mask_branch, mask_method, mask_loss, mask_pc>>

MaskNotUsed ==
    /\ mask_column = NotUsed
    /\ mask_series = NotUsed
    /\ mask_output = NotUsed
    /\ mask_branch = NotUsed
    /\ mask_method = NotUsed
    /\ mask_loss = NotUsed
    /\ mask_pc = NotUsed

\* the variables of the DataProcessor call of SpecProfile
varsProfile == <<profile_df, profile_column, profile_pc, profile_result>>

ProfileNotUsed ==
    /\ profile_df = NotUsed
    /\ profile_column = NotUsed
    /\ profile_pc = NotUsed
    /\ profile_result = NotUsed

\* the variables of the analyze_multiple_files call of SpecFiles
varsFiles ==
    <<files_data, file_index, all_results, files_metadata, files_pc, files_response>>

FilesNotUsed ==
    /\ files_data = NotUsed
    /\ file_index = NotUsed
    /\ all_results = NotUsed
    /\ files_metadata = NotUsed
    /\ files_pc = NotUsed
    /\ files_response = NotUsed

\* the variables of the specifications that come after SpecAnalysis
varsLater == <<varsMask, varsProfile, varsFiles>>

LaterNotUsed ==
    /\ MaskNotUsed
    /\ ProfileNotUsed
    /\ FilesNotUsed

\* the variables of Spec, SpecCalls and SpecAnalysis
varsEarlier == <<heap, input, varsCall, varsTwoCalls, varsAnalysis>>

EarlierNotUsed ==
    /\ heap = NotUsed
    /\ input = NotUsed
    /\ CallNotUsed
    /\ TwoCallsNotUsed
    /\ AnalysisNotUsed

\* the caller's reference
df == "caller"

Init ==
    /\ \E k \in 1..MaxCols, n \in RowCounts :
           \E cols \in Selections(k) : input = Dataset(cols, n)
    /\ heap = [r \in {"caller", "copy"} |-> IF r = "caller" THEN input ELSE NoFrame]
    /\ df_anon = "unbound"
    /\ anonymization_report = NewReport
    /\ column_index = 0
    /\ applied = [c \in {} |-> "none"]
    /\ pc = "idle"
    /\ result = [kind |-> "pending"]
    /\ TwoCallsNotUsed
    /\ AnalysisNotUsed
    /\ LaterNotUsed

\* lines 45-54: df_anon = df.copy() and the empty report
Call ==
    /\ pc = "idle"
    /\ df_anon' = DataFrameCopy(df)
    /\ heap' = [heap EXCEPT ![DataFrameCopy(df)] = heap[df]]
    /\ anonymization_report' = NewReport
    /\ column_index' = 1
    /\ pc' = "loop"
    /\ UNCHANGED <<input, applied, result, varsTwoCalls, varsAnalysis, varsLater>>

\* lines 57-76 for one column, and lines 90-96 when it raises
ProcessColumn ==
    /\ pc = "loop"
    /\ column_index <= Len(heap[df_anon])
    /\ LET column == Columns(heap[df_anon])[column_index]
           step == ColumnStep(heap[df_anon], anonymization_report, column)
       IN  /\ heap' = [heap EXCEPT ![df_anon] = step.frame]
           /\ anonymization_report' = step.report
           /\ applied' = IF step.branch = "none" THEN applied
                         ELSE (column :> step.branch) @@ applied
           /\ IF step.exc = "none"
              THEN /\ column_index' = column_index + 1
                   /\ UNCHANGED <<pc, result>>
              ELSE /\ pc' = "done"
                   /\ result' = ExceptClause(step.exc, df_anon, step.report)
                   /\ UNCHANGED column_index
    /\ UNCHANGED <<input, df_anon, varsTwoCalls, varsAnalysis, varsLater>>

\* lines 78-88 (analysis_id is None: nothing is logged)
Return ==
    /\ pc = "loop"
    /\ column_index > Len(heap[df_anon])
    /\ pc' = "done"
    /\ result' = ReturnValue(df_anon, anonymization_report)
    /\ UNCHANGED <<heap, input, df_anon, anonymization_report, column_index, applied,
                   varsTwoCalls, varsAnalysis, varsLater>>

Next == Call \/ ProcessColumn \/ Return

Spec == Init /\ [][Next]_vars

(***************************************************************************)
(* Properties.                                                             *)
(***************************************************************************)
\* the columns the loop has visited without raising
Visited == IF pc = "idle" THEN {} ELSE 1..(column_index - 1)

\* the columns that were masked
Masked == DOMAIN applied

Returned == pc = "done" /\ result.kind = "returned"

Raised == pc = "done" /\ result.kind = "raised"

\* C1: anonymize_dataframe never mutates the caller's dataset: at every
\* point of the call, and after it returned or raised, the caller's
\* DataFrame holds what it held when the call was made.
C1_CallerFrameUntouched == heap[df] = input

\* a call that returned a masked dataset differing from the caller's
C1_Witness == Returned /\ heap[result.df] # input /\ heap[df] = input

\* C2: anonymize_dataframe is total on well-formed tabular input: a call
\* that has ended has returned (masked_dataset, report), it has not raised.
C2_NeverRaises == pc = "done" => result.kind = "returned"

\* some column of the input on which the per-column step raises
SomeColumnRaises ==
    \E i \in 1..Len(input) :
        ContainsSensitiveData(input[i].values, input[i].name).exc # "none"

\* C3: anonymization is all-or-nothing: when the step of some column raises,
\* the caller gets the exception and neither a dataset nor a report; when
\* none raises, the report counts every column (none is skipped).
C3_AllOrNothing ==
    pc = "done" =>
        IF SomeColumnRaises
        THEN result.kind = "raised" /\ DOMAIN result = {"kind", "exc"}
        ELSE /\ result.kind = "returned"
             /\ result.report.columns_processed = Len(input)

\* a call that raised after a column had already been masked and reported
C3_Witness == Raised /\ anonymization_report.columns_anonymized >= 1

\* C4: for every masking method and every column it is applied to, the
\* masked column has the length of the input column, position i is null in
\* the output exactly when it is null in the input (the null itself is
\* passed through), and every non-null output value is a string.
C4_MaskingKeepsLengthAndNulls ==
    \A c \in Masked :
        LET original == GetColumn(input, c)
            masked == GetColumn(heap[df_anon], c)
        IN  /\ Len(masked) = Len(original)
            /\ \A i \in 1..Len(original) :
                   IF IsNa(original[i]) THEN masked[i] = original[i]
                   ELSE ~IsNa(masked[i]) /\ masked[i].kind = "str"

\* a masked column that holds both a null and a masked non-string value
C4_Witness ==
    \E c \in Masked :
        LET original == GetColumn(input, c)
        IN  /\ \E i \in 1..Len(original) : IsNa(original[i])
            /\ \E i \in 1..Len(original) : ~IsNa(original[i])
            /\ GetColumn(heap[df_anon], c) # original

\* the keyword groups in their priority order, each with its transform
MethodGroups ==
    << [keywords |-> <<KwEmail, KwMail>>, transform |-> "_anonymize_emails"],
       [keywords |-> <<KwPhone, KwTelephone, KwTel, KwMobile>>,
        transform |-> "_anonymize_phones"],
       [keywords |-> <<KwSsn, KwSocial, KwSecurity>>, transform |-> "_anonymize_ssn"],
       [keywords |-> <<KwCredit, KwCard, KwCarte, KwIban>>,
        transform |-> "_anonymize_financial"],
       [keywords |-> <<KwAddress, KwAdresse, KwPostal, KwZip>>,
        transform |-> "_anonymize_addresses"],
       [keywords |-> <<KwIp, KwMac>>, transform |-> "_anonymize_network"],
       [keywords |-> <<KwId, KwIdentifier, KwIdentifiant>>,
        transform |-> "_anonymize_ids"] >>

\* the groups a name matches
MatchingGroups(column_name) ==
    {g \in 1..Len(MethodGroups) :
        AnyKeyword(Lower(column_name), MethodGroups[g].keywords)}

\* the transform of the earliest group the name matches, else the hash
EarliestGroupTransform(column_name) ==
    LET matching == MatchingGroups(column_name)
    IN  IF matching = {} THEN "_anonymize_generic"
        ELSE MethodGroups[CHOOSE g \in matching : \A h \in matching : g <= h].transform

\* C5: each sensitive column is masked by exactly one method, the one of
\* the earliest keyword group (email, phone, ssn, financial, address,
\* network, id) its name matches, else the hash; the masked column is that
\* method's output on the input column.  A name matching several groups
\* ("Phone_Email": phone and email; "zip": address and network) gets the
\* earliest one, and the call does not fail on it.
C5_EarliestGroupWins ==
    /\ \A c \in Masked :
           /\ applied[c] = EarliestGroupTransform(c)
           /\ GetColumn(heap[df_anon], c) = RunTransform(applied[c], GetColumn(input, c))
           /\ (c = NamePhoneEmail => applied[c] = "_anonymize_emails")
           /\ (c = NameZip => applied[c] = "_anonymize_addresses")
    /\ \A i \in Visited :
           Cardinality(MatchingGroups(input[i].name)) >= 2 => input[i].name \in Masked

\* a finished call that masked two columns whose names match several groups
C5_Witness ==
    /\ Returned
    /\ Masked = {NamePhoneEmail, NameZip}
    /\ Cardinality(MatchingGroups(NamePhoneEmail)) >= 2
    /\ Cardinality(MatchingGroups(NameZip)) >= 2

\* the columns masked by id_mapping
IdColumns == {c \in Masked : applied[c] = "_anonymize_ids"}

\* the number of rows of the dataset
Rows == Len(input[1].values)

\* the non-null cells of the id columns: <<column, row>>
IdCells == {x \in IdColumns \X (1..Rows) : ~IsNa(GetColumn(input, x[1])[x[2]])}

\* C6: within one run, over all the columns masked by id_mapping, the same
\* identifier value always gets the same ID_NNNNNN token and two distinct
\* identifier values never get the same token.
C6_IdMappingConsistentOverRun ==
    \A x, y \in IdCells :
        (GetColumn(input, x[1])[x[2]] = GetColumn(input, y[1])[y[2]])
        <=> (GetColumn(heap[df_anon], x[1])[x[2]] = GetColumn(heap[df_anon], y[1])[y[2]])

\* the number of characters of the original value that the method leaves
\* readable: its visible prefix and suffix
VisibleWindow(branch, s) ==
    CASE branch = "_anonymize_emails" ->
            IF IsIn("@", s)
            THEN LET parts == SplitOnce(s, "@")
                     labels == Split(parts[2], ".")
                 IN  (IF Len(parts[1]) > 2 THEN 2 ELSE 0) + 1
                     + (IF Len(labels) >= 2 THEN Len(parts[2]) - Len(labels[1]) ELSE 0)
            ELSE 0
      [] branch = "_anonymize_phones" -> 4
      [] branch = "_anonymize_ssn" -> 6
      [] branch = "_anonymize_financial" -> 8
      [] branch = "_anonymize_addresses" ->
            LET parts == Split(s, ",")
            IN  IF Len(parts) >= 2 THEN Len(Strip(parts[Len(parts)])) ELSE 0
      [] branch = "_anonymize_network" ->
            LET dots == Split(s, ".")
                colons == Split(s, ":")
            IN  IF Len(dots) = 4 THEN Len(dots[1]) + Len(dots[2]) + 1
                ELSE IF Len(dots) = 1 /\ Len(colons) = 6
                THEN Len(colons[1]) + Len(colons[2]) + 1
                ELSE 0
      [] branch = "_anonymize_ids" -> 0
      [] branch = "_anonymize_generic" -> 0

\* C7: for every column flagged sensitive and every non-null value longer
\* than the visible window of the method chosen for the column, the masked
\* value does not contain the original value verbatim.  (Stated for the
\* outputs the transforms build themselves; an output that is a digest is
\* left out, the digest being abstract here.)
C7_NoVerbatimValue ==
    \A c \in Masked : \A i \in 1..Rows :
        LET original == GetColumn(input, c)[i]
            masked == GetColumn(heap[df_anon], c)[i]
        IN  (/\ ~IsNa(original)
             /\ Len(Str(original)) > VisibleWindow(applied[c], Str(original))
             /\ Str(masked) # HashValue(Str(original)))
            => ~Contains(Str(original), Str(masked))

Letters == LowerLetters \o UpperLetters

AllIn(s, class) == \A i \in 1..Len(s) : IsIn(s[i], class)

\* a value the email pattern matches: word characters, @, a domain and a
\* final label of at least two letters (a sufficient condition for
\* \b[A-Za-z0-9._%+-]+@[A-Za-z0-9.-]+\.[A-Z|a-z]{2,}\b to be found)
IsEmailAddress(s) ==
    LET at == Find("@", s)
        local == SubSeq(s, 1, at - 1)
        domain == SubSeq(s, at + 1, Len(s))
        labels == Split(domain, ".")
    IN  /\ at > 1
        /\ AllIn(local, Letters \o Digits \o <<".", "_", "%", "+", "-">>)
        /\ IsIn(local[1], Letters \o Digits)
        /\ AllIn(domain, Letters \o Digits \o <<".", "-">>)
        /\ Len(labels) >= 2
        /\ Len(labels[1]) >= 1
        /\ Len(labels[Len(labels)]) >= 2
        /\ AllIn(labels[Len(labels)], Letters)

\* a value the postal-code pattern \b\d{5}\b matches: five digits
IsPostalCode(s) == Len(s) = 5 /\ AllIn(s, Digits)

\* the columns the report lists as sensitive
Detected ==
    {anonymization_report.sensitive_columns_detected[i] :
        i \in 1..Len(anonymization_report.sensitive_columns_detected)}

\* C8: a column whose name holds no sensitive keyword and one of whose
\* first 100 non-null values is an email address or a 5-digit postal code
\* is classified sensitive, whatever its unique/row ratio.
C8_ContentPatternFlags ==
    \A i \in Visited :
        LET sample == Head_(DropNa(input[i].values), SampleSize)
        IN  (/\ ~NameRule(input[i].name)
             /\ \E j \in 1..Len(sample) :
                    IsEmailAddress(Str(sample[j])) \/ IsPostalCode(Str(sample[j])))
            => input[i].name \in Detected

\* C9: a column whose lower-cased name contains a keyword of the sensitive
\* set is classified sensitive whatever its values (all null, no row), and
\* the name is decided first: the cardinality division never runs, and so
\* never fails, on such a column.
C9_NameRuleFirst ==
    /\ \A i \in Visited : NameRule(input[i].name) => input[i].name \in Detected
    /\ Raised => ~NameRule(input[column_index].name)

\* a finished call on a dataset without rows whose columns were all flagged
\* by their names
C9_Witness ==
    /\ Returned
    /\ Rows = 0
    /\ Len(input) = 2
    /\ \A i \in 1..Len(input) : NameRule(input[i].name) /\ input[i].name \in Detected

\* the number of distinct non-null values of a column
DistinctNonNull(values) ==
    Cardinality({v \in {values[i] : i \in 1..Len(values)} : v.kind # "null"})

RecordedLosses(report) ==
    [i \in 1..Len(report.sensitive_columns_detected) |->
        report.anonymization_methods[report.sensitive_columns_detected[i]].data_loss]

\* a <= b on rationals of positive denominators
RatLeq(a, b) == a.num * b.den <= b.num * a.den

\* C13: the data loss estimate of every masked column lies in the closed
\* interval [0,1], whatever the masking method that produced the column
\* (the hash of a value shorter than 8 characters included).
C13_DataLossInUnitInterval ==
    \A c \in DOMAIN anonymization_report.anonymization_methods :
        LET data_loss == anonymization_report.anonymization_methods[c].data_loss
        IN  /\ RatLeq(Zero, data_loss)
            /\ RatLeq(data_loss, Rat(1, 1))

\* C16: columns_anonymized <= columns_processed in the report at every
\* point of anonymize_dataframe (after each column) and in the returned
\* report.
C16_AnonymizedAtMostProcessed ==
    /\ anonymization_report.columns_anonymized
           <= anonymization_report.columns_processed
    /\ Returned =>
           result.report.columns_anonymized <= result.report.columns_processed

\* a call in its loop, and a call that returned, with every column so far
\* masked: the two counters are equal and positive
C16_Witness ==
    /\ anonymization_report.columns_anonymized >= 1
    /\ anonymization_report.columns_anonymized
           = anonymization_report.columns_processed
    /\ pc = "loop" \/ (Returned /\ result.report.columns_anonymized = Len(input))

\* a mutation of IdentifyFrom: a flagged column is put at the head of the
\* list
RECURSIVE IdentifyFromAtHead(_, _, _)
IdentifyFromAtHead(frame, i, sensitive_columns) ==
    IF i > Len(frame) THEN Returns(sensitive_columns)
    ELSE LET sensitive == ContainsSensitiveData(frame[i].values, frame[i].name)
         IN  IF sensitive.exc # "none" THEN Raises(sensitive.exc)
             ELSE IdentifyFromAtHead(frame, i + 1,
                                     IF sensitive.value
                                     THEN <<frame[i].name>> \o sensitive_columns
                                     ELSE sensitive_columns)

\* _identify_sensitive_columns(df): the columns _contains_sensitive_data
\* flags, in column order
RECURSIVE IdentifyFrom(_, _, _)
IdentifyFrom(frame, i, sensitive_columns) ==
    IF i > Len(frame) THEN Returns(sensitive_columns)
    ELSE LET sensitive == ContainsSensitiveData(frame[i].values, frame[i].name)
         IN  IF sensitive.exc # "none" THEN Raises(sensitive.exc)
             ELSE IdentifyFrom(frame, i + 1,
                               IF sensitive.value
                               THEN Append(sensitive_columns, frame[i].name)
                               ELSE sensitive_columns)

IdentifySensitiveColumns(frame) == IdentifyFrom(frame, 1, <<>>)

\* the positions of the input's columns the classifier flags
ClassifiedSensitive ==
    {i \in 1..Len(input) :
        LET sensitive == ContainsSensitiveData(input[i].values, input[i].name)
        IN  sensitive.exc = "none" /\ sensitive.value}

\* C17: on successful return, columns_processed is the number of columns of
\* the dataset, columns_anonymized the number of columns classified
\* sensitive, sensitive_columns_detected lists exactly those columns in
\* original column order, and anonymization_methods has exactly one entry
\* per listed column.
C17_ReportCountsAndOrder ==
    Returned =>
        LET report == result.report
            listed == report.sensitive_columns_detected
        IN  /\ report.columns_processed = Len(input)
            /\ report.columns_anonymized = Cardinality(ClassifiedSensitive)
            /\ Len(listed) = Cardinality(ClassifiedSensitive)
            /\ \A i \in ClassifiedSensitive :
                   listed[Cardinality({j \in ClassifiedSensitive : j <= i})]
                       = input[i].name
            /\ DOMAIN report.anonymization_methods
                   = {input[i].name : i \in ClassifiedSensitive}

\* a returned call on two columns that were both classified sensitive
C17_Witness ==
    /\ Returned
    /\ Cardinality(ClassifiedSensitive) = 2
    /\ result.report.sensitive_columns_detected = Columns(input)

RECURSIVE RatSum(_)
RatSum(losses) ==
    IF Len(losses) = 0 THEN Zero ELSE RatAdd(Head(losses), RatSum(Tail(losses)))

\* C18: on successful return, data_loss_estimate is the sum of the
\* data_loss values recorded in anonymization_methods (not their average),
\* and 0.0 when no column is flagged.
C18_DataLossEstimateIsSum ==
    Returned =>
        LET report == result.report
        IN  /\ report.data_loss_estimate = RatSum(RecordedLosses(report))
            /\ report.sensitive_columns_detected = <<>>
                   => report.data_loss_estimate = Zero

\* a returned call with two flagged columns of non-zero data loss, whose
\* sum therefore differs from their average
C18_Witness ==
    /\ Returned
    /\ Len(result.report.sensitive_columns_detected) = 2
    /\ \A i \in 1..2 : RecordedLosses(result.report)[i].num > 0
    /\ result.report.data_loss_estimate.num > 0

\* C19: every column the classifier did not flag is identical in the
\* working (and returned) dataset and in the input, and masking one column
\* changes no other column: a column not yet visited, or visited and not
\* flagged, holds the input's values under the input's name.
C19_UnflaggedColumnsPassThrough ==
    pc # "idle" =>
        /\ Columns(heap[df_anon]) = Columns(input)
        /\ \A i \in 1..Len(input) :
               (i \notin Visited \/ input[i].name \notin Detected)
               => heap[df_anon][i] = input[i]

\* a returned dataset with a masked column before a column of at least
\* three rows that was not flagged
C19_Witness ==
    /\ Returned
    /\ Len(input) = 2
    /\ Rows >= 3
    /\ input[1].name \in Detected
    /\ heap[result.df][1] # input[1]
    /\ input[2].name \notin Detected

(***************************************************************************)
(* Two calls of anonymize_dataframe(df) on the same service instance and   *)
(* the same caller's DataFrame, their per-column steps interleaved in any  *)
(* order (one after the other included), and one call of                   *)
(* _identify_sensitive_columns(df) at any time.  The instance holds        *)
(* patterns, sensitive_column_keywords and logger, assigned in __init__    *)
(* and never again: each call's state is its locals and its own copy.      *)
(***************************************************************************)
varsCalls == <<heap, input, calls, identified>>

Callers == {1, 2}

\* the objects the two df.copy() create
CopyRefs == <<"copy_1", "copy_2">>

\* the reference df.copy() returns in call c
CopyIn(c) == IF DataFrameCopy(df) = df THEN df ELSE CopyRefs[c]

CallsPool ==
    { <<NameUserId, "distinct">>, <<NameUserId, "one_repeat">>,
      <<NameOrderId, "distinct_rev">>,
      <<NameContact, "pattern_text">>,
      <<NameAge, "ints">>,
      <<NameEmail, "emails">> }

SelectionsOf(pool, k) ==
    { c \in [1..k -> pool] : \A i, j \in 1..k : i # j => c[i][1] # c[j][1] }

IdleCall ==
    [df_anon |-> "unbound",
     anonymization_report |-> NewReport,
     column_index |-> 0,
     pc |-> "idle",
     result |-> [kind |-> "pending"]]

InitCalls ==
    /\ \E k \in 1..MaxCols, n \in RowCounts :
           \E cols \in SelectionsOf(CallsPool, k) : input = Dataset(cols, n)
    /\ heap = [r \in {"caller", "copy_1", "copy_2"} |->
                  IF r = "caller" THEN input ELSE NoFrame]
    /\ calls = [c \in Callers |-> IdleCall]
    /\ identified = [kind |-> "pending"]
    /\ CallNotUsed
    /\ AnalysisNotUsed
    /\ LaterNotUsed

\* lines 45-54 in call c
CallBy(c) ==
    /\ calls[c].pc = "idle"
    /\ heap' = [heap EXCEPT ![CopyIn(c)] = heap[df]]
    /\ calls' = [calls EXCEPT ![c] = [@ EXCEPT !.df_anon = CopyIn(c),
                                               !.anonymization_report = NewReport,
                                               !.column_index = 1,
                                               !.pc = "loop"]]
    /\ UNCHANGED <<input, identified, varsCall, varsAnalysis, varsLater>>

\* lines 57-76 for one column in call c, and lines 90-96 when it raises
ProcessColumnBy(c) ==
    /\ calls[c].pc = "loop"
    /\ calls[c].column_index <= Len(heap[calls[c].df_anon])
    /\ LET frame == heap[calls[c].df_anon]
           column == Columns(frame)[calls[c].column_index]
           step == ColumnStep(frame, calls[c].anonymization_report, column)
       IN  /\ heap' = [heap EXCEPT ![calls[c].df_anon] = step.frame]
           /\ calls' =
                  [calls EXCEPT ![c] =
                      IF step.exc = "none"
                      THEN [@ EXCEPT !.anonymization_report = step.report,
                                     !.column_index = @ + 1]
                      ELSE [@ EXCEPT !.anonymization_report = step.report,
                                     !.pc = "done",
                                     !.result = ExceptClause(step.exc, calls[c].df_anon,
                                                             step.report)]]
    /\ UNCHANGED <<input, identified, varsCall, varsAnalysis, varsLater>>

\* lines 78-88 in call c
ReturnBy(c) ==
    /\ calls[c].pc = "loop"
    /\ calls[c].column_index > Len(heap[calls[c].df_anon])
    /\ calls' = [calls EXCEPT ![c] =
                    [@ EXCEPT !.pc = "done",
                              !.result = ReturnValue(calls[c].df_anon,
                                                     calls[c].anonymization_report)]]
    /\ UNCHANGED <<heap, input, identified, varsCall, varsAnalysis, varsLater>>

\* _identify_sensitive_columns(df) on the caller's DataFrame
Identify ==
    /\ identified.kind = "pending"
    /\ identified' = [kind |-> "done"] @@ IdentifySensitiveColumns(heap[df])
    /\ UNCHANGED <<heap, input, calls, varsCall, varsAnalysis, varsLater>>

NextCalls ==
    \/ \E c \in Callers : CallBy(c)
    \/ \E c \in Callers : ProcessColumnBy(c)
    \/ \E c \in Callers : ReturnBy(c)
    \/ Identify

SpecCalls == InitCalls /\ [][NextCalls]_varsCalls

\* anonymize_dataframe run alone on a frame, from column i, up to column
\* last: the working frame and the report it has then, or what it raised
RECURSIVE RunTo(_, _, _, _)
RunTo(frame, report, i, last) ==
    IF i > last THEN [kind |-> "running", frame |-> frame, report |-> report]
    ELSE LET step == ColumnStep(frame, report, Columns(frame)[i])
         IN  IF step.exc # "none"
             THEN [kind |-> "raised", exc |-> step.exc, report |-> step.report]
             ELSE RunTo(step.frame, step.report, i + 1, last)

ReturnedBy(c) == calls[c].pc = "done" /\ calls[c].result.kind = "returned"

RaisedBy(c) == calls[c].pc = "done" /\ calls[c].result.kind = "raised"

\* the cells of the input that _anonymize_ids masks: <<column position, row>>
\* of a non-null value of a flagged column the id branch takes
IdCellsOf(frame) ==
    {x \in (1..Len(frame)) \X (1..Rows) :
        /\ x[1] \in ClassifiedSensitive
        /\ AnonymizeColumnBranch(frame[x[1]].name) = "_anonymize_ids"
        /\ ~IsNa(frame[x[1]].values[x[2]])}

\* C14: two separate anonymize_dataframe calls on the same dataset assign
\* different ID_NNNNNN tokens to the same identifier value.
C14_RepeatedRunsDifferentIds ==
    (ReturnedBy(1) /\ ReturnedBy(2)) =>
        \A x \in IdCellsOf(input) :
            heap[calls[1].result.df][x[1]].values[x[2]]
                # heap[calls[2].result.df][x[1]].values[x[2]]

\* what call c has and gives is what a call alone has and gives at the same
\* position
AsAlone(c) ==
    LET call == calls[c]
        alone == RunTo(input, NewReport, 1,
                       IF call.pc = "loop" THEN call.column_index - 1 ELSE Len(input))
    IN  CASE call.pc = "idle" -> TRUE
          [] call.pc = "loop" ->
                /\ alone.kind = "running"
                /\ heap[call.df_anon] = alone.frame
                /\ call.anonymization_report = alone.report
          [] call.pc = "done" /\ call.result.kind = "raised" ->
                /\ alone.kind = "raised"
                /\ call.result.exc = alone.exc
          [] call.pc = "done" /\ call.result.kind = "returned" ->
                /\ alone.kind = "running"
                /\ heap[call.result.df] = alone.frame
                /\ call.result.report = alone.report

\* C15: two anonymize_dataframe calls on one service instance, their
\* per-column steps interleaved in any order, each return exactly the masked
\* dataset and report a call alone returns (or raise what it raises); at
\* every point each call's working dataset and running report, its
\* data_loss_estimate included, are those of a call alone, whatever the
\* other call did meanwhile.
C15_CallsShareNoState == \A c \in Callers : AsAlone(c)

\* one call has masked an id column and not returned, the other has
\* meanwhile started, masked and returned
C15_Witness ==
    \E c, d \in Callers :
        /\ calls[c].pc = "loop"
        /\ calls[c].column_index = 2
        /\ Len(input) = 2
        /\ 1 \in ClassifiedSensitive
        /\ AnonymizeColumnBranch(input[1].name) = "_anonymize_ids"
        /\ heap[calls[c].df_anon][1] # input[1]
        /\ ReturnedBy(d)
        /\ calls[d].result.report.data_loss_estimate # Zero

\* C20: classification is idempotent: two anonymize_dataframe calls on the
\* same dataset list the same sensitive_columns_detected,
\* _identify_sensitive_columns on it gives that list too (and raises when
\* they raise), and none of them changes the caller's dataset.
C20_ClassificationIdempotent ==
    /\ heap[df] = input
    /\ (ReturnedBy(1) /\ ReturnedBy(2)) =>
           calls[1].result.report.sensitive_columns_detected
               = calls[2].result.report.sensitive_columns_detected
    /\ \A c \in Callers :
           identified.kind = "done" =>
               /\ ReturnedBy(c) =>
                      /\ identified.exc = "none"
                      /\ identified.value
                             = calls[c].result.report.sensitive_columns_detected
               /\ RaisedBy(c) => identified.exc = calls[c].result.exc

\* both calls returned after masking, then _identify_sensitive_columns
\* listed two columns
C20_Witness ==
    /\ ReturnedBy(1)
    /\ ReturnedBy(2)
    /\ heap[calls[1].result.df] # input
    /\ identified.kind = "done"
    /\ identified.exc = "none"
    /\ Len(identified.value) = 2
    /\ Len(calls[2].result.report.sensitive_columns_detected) = 2

(***************************************************************************)
(* One call of SimpleAnalysisService.analyze_single_file(df, question,     *)
(* include_charts=..., anonymize_data=...).  Here a column also carries    *)
(* its dtype: [name, values, dtype].                                       *)
(***************************************************************************)
UpperChar(c) == IF IsIn(c, LowerLetters) THEN UpperLetters[IndexOf(c, LowerLetters)] ELSE c

\* str.upper()
Upper(s) == [i \in 1..Len(s) |-> UpperChar(s[i])]

\* the dtype pandas gives a column made of these values
Dtype(values) ==
    IF Len(values) = 0 THEN "object"
    ELSE IF \E i \in 1..Len(values) : values[i].kind = "str" THEN "object"
    ELSE IF \A i \in 1..Len(values) : values[i].kind = "int" THEN "int64"
    ELSE "float64"

\* pd.NaT
NaT == [kind |-> "nat", s |-> <<"N", "a", "T">>]

\* a pd.Timestamp, by its str()
Timestamp(s) == [kind |-> "datetime", s |-> s]

DigitValue(c) == IndexOf(c, Digits) - 1

\* a string of the form YYYY-MM-DD with a month in 1..12 and a day in 1..28
IsIsoDate(s) ==
    /\ Len(s) = 10
    /\ s[5] = "-"
    /\ s[8] = "-"
    /\ \A i \in {1, 2, 3, 4, 6, 7, 9, 10} : IsDigit(s[i])
    /\ 10 * DigitValue(s[6]) + DigitValue(s[7]) \in 1..12
    /\ 10 * DigitValue(s[9]) + DigitValue(s[10]) \in 1..28

\* pd.to_datetime of one value: a null gives NaT, an integer n the instant
\* n nanoseconds after the epoch, a YYYY-MM-DD string that day at midnight;
\* any other string here is one no date format reads
ToDatetimeValue(x) ==
    CASE x.kind = "null" -> Returns(NaT)
      [] x.kind = "nat" -> Returns(x)
      [] x.kind = "datetime" -> Returns(x)
      [] x.kind = "int" ->
            Returns(Timestamp(<<"1", "9", "7", "0", "-", "0", "1", "-", "0", "1", " ", "0", "0", ":", "0", "0", ":", "0", "0">>
                              \o (IF x.s = <<"0">> THEN <<>>
                                  ELSE <<".">> \o [i \in 1..(9 - Len(x.s)) |-> "0"] \o x.s)))
      [] x.kind = "str" ->
            IF IsIsoDate(x.s)
            THEN Returns(Timestamp(x.s \o <<" ", "0", "0", ":", "0", "0", ":", "0", "0">>))
            ELSE Raises("ValueError")

\* pd.to_datetime(series): raises when one value cannot be read
ToDatetime(series) ==
    IF \E i \in 1..Len(series) : ToDatetimeValue(series[i]).exc # "none"
    THEN Raises("ValueError")
    ELSE Returns([i \in 1..Len(series) |-> ToDatetimeValue(series[i]).value])

KwDate == <<"d", "a", "t", "e">>
KwTime == <<"t", "i", "m", "e">>

\* [col for col in df.columns if 'date' in col.lower() or 'time' in col.lower()]
DateColumns(frame) ==
    {i \in 1..Len(frame) :
        Contains(KwDate, Lower(frame[i].name)) \/ Contains(KwTime, Lower(frame[i].name))}

\* date_col = date_columns[0]; try: df[date_col] = pd.to_datetime(df[date_col])
\* ... except: pass   -- the frame after it
ConvertFirstDateColumn(frame) ==
    IF DateColumns(frame) = {} THEN frame
    ELSE LET date_col == CHOOSE i \in DateColumns(frame) :
                             \A j \in DateColumns(frame) : i <= j
             converted == ToDatetime(frame[date_col].values)
         IN  IF converted.exc # "none" THEN frame
             ELSE [frame EXCEPT ![date_col] =
                      [name |-> frame[date_col].name,
                       values |-> converted.value,
                       dtype |-> "datetime64[ns]"]]

KwName == <<"n", "a", "m", "e">>
KwUser == <<"u", "s", "e", "r">>

\* sensitive_patterns of _simple_anonymize
sensitive_patterns == <<KwEmail, KwPhone, KwAddress, KwName, KwId, KwUser>>

\* _simple_anonymize on the copy: every object column whose lower-cased
\* name holds a pattern becomes the constant "ANONYMIZED_<NAME>" in every row
SimpleAnonymize(frame) ==
    [i \in 1..Len(frame) |->
        IF AnyKeyword(Lower(frame[i].name), sensitive_patterns)
           /\ frame[i].dtype = "object"
        THEN [name |-> frame[i].name,
              values |-> [r \in 1..Len(frame[i].values) |->
                             StrCell(<<"A", "N", "O", "N", "Y", "M", "I", "Z", "E", "D", "_">> \o Upper(frame[i].name))],
              dtype |-> "object"]
        ELSE frame[i]]

\* "privacy_report": {"anonymization_applied": ..., "sensitive_columns_detected": ...}
PrivacyReport(frame, anonymize) ==
    [anonymization_applied |-> anonymize,
     sensitive_columns_detected |-> IF anonymize THEN Columns(frame) ELSE <<>>]

\* "data_summary": shape and data_types of df
DataSummary(frame) ==
    [rows |-> IF Len(frame) = 0 THEN 0 ELSE Len(frame[1].values),
     columns |-> Len(frame),
     data_types |-> [i \in 1..Len(frame) |-> frame[i].dtype]]

\* YYYY-MM-DD strings, one day after the other
DateCell(i) ==
    StrCell(<<"2", "0", "2", "4", "-", "0", "1", "-">> \o (IF i < 10 THEN <<"0">> ELSE <<>>) \o IntToStr(i))

\* the values of a column of the given shape, in n rows
AnalysisValues(shape, n) ==
    CASE shape = "dates" -> [i \in 1..n |-> DateCell(i)]
      [] shape = "dates_with_null" -> [i \in 1..n |-> IF i = 2 THEN NaN ELSE DateCell(i)]
      [] OTHER -> ShapeValues(shape, n)

NameDate == KwDate
NameTime == <<"T", "i", "m", "e">>

AnalysisPool ==
    { <<NameEmail, "emails">>,
      <<NameAge, "ints">>,
      <<NameName, "distinct">>,
      <<NameUserId, "distinct">>,
      <<NameDate, "dates">>, <<NameDate, "dates_with_null">>, <<NameDate, "distinct">>,
      <<NameTime, "ints">>, <<NameTime, "all_null">> }

TypedColumn(name, values) == [name |-> name, values |-> values, dtype |-> Dtype(values)]

AnalysisDataset(cols, n) ==
    [i \in 1..Len(cols) |-> TypedColumn(cols[i][1], AnalysisValues(cols[i][2], n))]

\* the dataset of the end-to-end scenario: email, age and name in two rows
ScenarioDataset ==
    << TypedColumn(NameEmail, <<StrCell(<<"a", "@", "x", ".", "c", "o", "m">>),
                                StrCell(<<"b", "@", "y", ".", "c", "o", "m">>)>>),
       TypedColumn(NameAge, <<IntCell(30), IntCell(42)>>),
       TypedColumn(NameName, <<StrCell(<<"A", "l", "i", "c", "e">>),
                               StrCell(<<"B", "o", "b">>)>>) >>

\* the object None where a DataFrame is expected: a value of the shape of
\* a frame that no DataFrame equals
NoneValue == <<[name |-> <<"N", "o", "n", "e">>, values |-> <<>>, dtype |-> "NoneType"]>>

\* lines 138-147: except Exception as e: return {"analysis_id": ...,
\* "error": str(e), ..., "status": "error"}
ExceptReturn(exc) == [kind |-> "returned", status |-> "error", error |-> exc]

InitAnalysis ==
    /\ \/ input = ScenarioDataset
       \/ input = NoneValue
       \/ \E k \in 1..MaxCols, n \in RowCounts :
              \E cols \in SelectionsOf(AnalysisPool, k) : input = AnalysisDataset(cols, n)
    /\ heap = [r \in {"caller", "copy"} |-> IF r = "caller" THEN input ELSE NoFrame]
    /\ anonymize_data \in BOOLEAN
    /\ include_charts \in BOOLEAN
    /\ df_anonymized = "unbound"
    /\ ai_analysis = "unbound"
    /\ analysis_pc = "anonymize"
    /\ response = [kind |-> "pending"]
    /\ CallNotUsed
    /\ TwoCallsNotUsed
    /\ LaterNotUsed

\* lines 63-67: df_anonymized = self._simple_anonymize(df), or df itself
\* df.copy() of line 326 raises AttributeError when df is None
Anonymize ==
    /\ analysis_pc = "anonymize"
    /\ IF anonymize_data /\ heap[df] = NoneValue
       THEN /\ response' = ExceptReturn("AttributeError")
            /\ analysis_pc' = "done"
            /\ UNCHANGED <<heap, df_anonymized>>
       ELSE /\ IF anonymize_data
               THEN /\ df_anonymized' = DataFrameCopy(df)
                    /\ heap' = [heap EXCEPT
                                   ![DataFrameCopy(df)] = SimpleAnonymize(heap[df])]
               ELSE /\ df_anonymized' = df
                    /\ UNCHANGED heap
            /\ analysis_pc' = "ai_analysis"
            /\ UNCHANGED response
    /\ UNCHANGED <<input, anonymize_data, include_charts, ai_analysis,
                   varsCall, varsTwoCalls, varsLater>>

\* line 70: _simple_ai_analysis reads the frame and calls the OpenAI client,
\* which answers or raises; both ways it returns a dict with "analysis".
\* On None the frame is read first (df.columns, line 252) and that raises.
AiAnalysis ==
    /\ analysis_pc = "ai_analysis"
    /\ \E answered \in IF heap[df_anonymized] = NoneValue THEN {FALSE} ELSE BOOLEAN :
           ai_analysis' = IF answered THEN "content" ELSE "Erreur lors de l'analyse IA"
    /\ analysis_pc' = "charts"
    /\ UNCHANGED <<heap, input, anonymize_data, include_charts, df_anonymized, response,
                   varsCall, varsTwoCalls, varsLater>>

\* lines 73-75: charts = self._generate_dynamic_charts(df_anonymized) when
\* include_charts; its date chart assigns the converted column to the frame.
\* On None df.columns raises AttributeError, and so does df.dtypes in the
\* method's own handler (line 727): the exception reaches line 138.
GenerateCharts ==
    /\ analysis_pc = "charts"
    /\ IF include_charts /\ heap[df_anonymized] = NoneValue
       THEN /\ response' = ExceptReturn("AttributeError")
            /\ analysis_pc' = "done"
            /\ UNCHANGED heap
       ELSE /\ heap' = IF include_charts
                       THEN [heap EXCEPT ![df_anonymized] = ConvertFirstDateColumn(@)]
                       ELSE heap
            /\ analysis_pc' = "insights"
            /\ UNCHANGED response
    /\ UNCHANGED <<input, anonymize_data, include_charts, df_anonymized, ai_analysis,
                   varsCall, varsTwoCalls, varsLater>>

\* line 78: insights = self._generate_business_insights(df_anonymized); its
\* temporal insight assigns the converted column to the frame.  On None
\* df.columns raises AttributeError and len(df) in the method's own handler
\* (line 437) raises TypeError, which reaches line 138.
GenerateInsights ==
    /\ analysis_pc = "insights"
    /\ IF heap[df_anonymized] = NoneValue
       THEN /\ response' = ExceptReturn("TypeError")
            /\ analysis_pc' = "done"
            /\ UNCHANGED heap
       ELSE /\ heap' = [heap EXCEPT ![df_anonymized] = ConvertFirstDateColumn(@)]
            /\ analysis_pc' = "response"
            /\ UNCHANGED response
    /\ UNCHANGED <<input, anonymize_data, include_charts, df_anonymized, ai_analysis,
                   varsCall, varsTwoCalls, varsLater>>

\* lines 81-136: recommendations, anomalies and summary read the frame; the
\* privacy report and the data summary are built from df and returned
BuildResponse ==
    /\ analysis_pc = "response"
    /\ response' = [kind |-> "returned",
                    ai_analysis |-> ai_analysis,
                    privacy_report |-> PrivacyReport(heap[df], anonymize_data),
                    data_summary |-> DataSummary(heap[df])]
    /\ analysis_pc' = "done"
    /\ UNCHANGED <<heap, input, anonymize_data, include_charts, df_anonymized,
                   ai_analysis, varsCall, varsTwoCalls, varsLater>>

NextAnalysis ==
    Anonymize \/ AiAnalysis \/ GenerateCharts \/ GenerateInsights \/ BuildResponse

varsAnalysisCall == <<heap, input, varsAnalysis>>

SpecAnalysis == InitAnalysis /\ [][NextAnalysis]_varsAnalysisCall

\* the names a privacy report lists as sensitive
ListedIn(report) ==
    {report.sensitive_columns_detected[i] :
        i \in 1..Len(report.sensitive_columns_detected)}

\* C11: in the end-to-end scenario (columns email, age, name; anonymize_data
\* true) the report has anonymization_applied = True, its
\* sensitive_columns_detected holds email and name, the age column is left
\* untouched (its values are not altered and it is not listed as sensitive),
\* and no masked email value contains an original address.
C11_EndToEndScenario ==
    (analysis_pc = "done" /\ input = ScenarioDataset /\ anonymize_data) =>
        LET report == response.privacy_report
            emails == GetColumn(input, NameEmail)
            masked == GetColumn(heap[df_anonymized], NameEmail)
        IN  /\ report.anonymization_applied = TRUE
            /\ NameEmail \in ListedIn(report)
            /\ NameName \in ListedIn(report)
            /\ GetColumn(heap[df_anonymized], NameAge) = GetColumn(input, NameAge)
            /\ NameAge \notin ListedIn(report)
            /\ \A i, j \in 1..Len(emails) : ~Contains(Str(emails[j]), Str(masked[i]))

\* C12: with anonymize_data false, analyze_single_file reports
\* anonymization_applied = False and sensitive_columns_detected = [], and
\* the caller's DataFrame is what it was before the call: no value and no
\* column dtype differs, whatever the dataset.
C12_NotAnonymizedLeavesDatasetIdentical ==
    (analysis_pc = "done" /\ ~anonymize_data /\ input # NoneValue) =>
        /\ response.privacy_report.anonymization_applied = FALSE
        /\ response.privacy_report.sensitive_columns_detected = <<>>
        /\ heap[df] = input


(***************************************************************************)
(* SpecMask: one flagged column through lines 61-76 of anonymize_dataframe *)
(* (_anonymize_column, _calculate_data_loss, _get_anonymization_method),   *)
(* for column names and values drawn from the sets below.                  *)
(***************************************************************************)
\* the longest value of the exhaustive value sets
MaxLen == 6

\* the most rows of a column of example values
MaxSeries == 2

\* the most digits of a value of the digit-window columns
MaxDigits == 9

\* every string of at most n characters of the alphabet
StringsUpTo(alphabet, n) == UNION {[1..k -> alphabet] : k \in 0..n}

MaskEmailAlphabet == {"a", "@", "."}

MaskNetworkAlphabet == {"1", ".", ":"}

MaskEmailExamples ==
    {<<"j", "o", "h", "n", ".", "d", "o", "e", "@", "e", "x", "a", "m", "p", "l", "e", ".",
       "c", "o", "m">>,
     <<"b", "o", "b">>,
     <<"a", "b", "@", "x", ".", "f", "r">>,
     <<"a", "n", "n", "@", "m", "a", "i", "l", ".", "y", ".", "o", "r", "g">>}

MaskEmailValues ==
    {StrCell(t) : t \in StringsUpTo(MaskEmailAlphabet, MaxLen) \cup MaskEmailExamples}
    \cup {NaN}

MaskNetworkExamples ==
    {<<"1", "9", "2", ".", "1", "6", "8", ".", "0", ".", "7">>,
     <<"0", "0", ":", "1", "a", ":", "2", "b", ":", "3", "c", ":", "4", "d", ":", "5", "e">>,
     <<"1", ".", "2", ":", "a", ":", "b", ":", "c", ":", "d", ":", "e">>}

MaskNetworkValues ==
    {StrCell(t) : t \in StringsUpTo(MaskNetworkAlphabet, MaxLen) \cup MaskNetworkExamples}
    \cup {NaN}

\* the digits 1, 2, ..., 9, 0, 1, ... up to n of them
DigitString(n) == [i \in 1..n |-> Digits[(i % 10) + 1]]

\* n digits with separator sep after the j-th
SeparatedDigits(n, j, sep) ==
    SubSeq(DigitString(n), 1, j) \o sep \o SubSeq(DigitString(n), j + 1, n)

MaskDigitValues ==
    UNION {{StrCell(SeparatedDigits(n, j, sep)) :
                j \in 0..n, sep \in {<<>>, <<"-">>, <<"+", " ">>}} : n \in 0..MaxDigits}
    \cup {IntCell(7), IntCell(1234), IntCell(123456), IntCell(12345678), NaN}

MaskExampleValues ==
    {StrCell(<<"a", "@", "b", ".", "c">>), StrCell(<<"@", ".", "a">>),
     StrCell(<<"I", "D", "_", "0", "0", "0", "0", "0", "1">>),
     StrCell(<<"I", "D", "_", "0", "0", "0", "0", "0", "2">>),
     StrCell(<<"1", ".", "2", ".", "3", ".", "4">>), StrCell(<<"1", ",", " ", "a">>),
     StrCell(<<>>), IntCell(42), NaN}

\* one column name for each branch of _anonymize_column
MaskFamilyNames ==
    {KwEmail, KwPhone, KwSsn, KwIban, KwAddress, KwIp, <<"u", "s", "e", "r", "_", "i", "d">>,
     KwPassword}

\* the keywords of the two dispatch chains
DispatchKeywords ==
    {KwEmail, KwMail, KwPhone, KwTelephone, KwTel, KwMobile, KwSsn, KwSocial, KwSecurity,
     KwCredit, KwCard, KwCarte, KwIban, KwAddress, KwAdresse, KwPostal, KwZip, KwIp, KwMac,
     KwId, KwIdentifier, KwIdentifiant}

\* column names: each keyword, each keyword in capitals, each pair of
\* keywords joined by an underscore, and names with no dispatch keyword
MaskNamePool ==
    DispatchKeywords
    \cup {Upper(k) : k \in DispatchKeywords}
    \cup {k1 \o <<"_">> \o k2 : k1 \in DispatchKeywords, k2 \in DispatchKeywords}
    \cup {KwPassword, KwToken, KwNumber, KwCode, <<"n", "a", "m", "e">>, <<"x">>, <<>>}

\* the columns of SpecMask: <<name, values>>
MaskColumns ==
    ({KwEmail} \X {<<v>> : v \in MaskEmailValues})
    \cup ({KwIp, KwMac} \X {<<v>> : v \in MaskNetworkValues})
    \cup ({KwPhone, KwSsn, KwIban} \X {<<v>> : v \in MaskDigitValues})
    \cup (MaskFamilyNames \X StringsUpTo(MaskExampleValues, MaxSeries))
    \cup (MaskNamePool \X {<<StrCell(<<"a", "@", "b", ".", "c">>)>>})

\* line 61: the column is one that _contains_sensitive_data flagged;
\* df_anon[column] still holds the original values
InitMask ==
    /\ \E c \in MaskColumns :
        /\ ContainsSensitiveData(c[2], c[1]) = Returns(TRUE)
        /\ mask_column = c[1]
        /\ mask_series = c[2]
        /\ mask_output = c[2]
    /\ mask_branch = "none"
    /\ mask_method = "none"
    /\ mask_loss = Zero
    /\ mask_pc = "flagged"
    /\ EarlierNotUsed
    /\ ProfileNotUsed
    /\ FilesNotUsed

\* lines 65-66: original_values = df_anon[column].copy();
\* df_anon[column] = self._anonymize_column(df_anon[column], column)
MaskColumn ==
    /\ mask_pc = "flagged"
    /\ mask_branch' = AnonymizeColumnBranch(mask_column)
    /\ mask_output' = AnonymizeColumn(mask_output, mask_column)
    /\ mask_pc' = "masked"
    /\ UNCHANGED <<mask_column, mask_series, mask_method, mask_loss, varsEarlier,
                   varsProfile, varsFiles>>

\* lines 69-76: data_loss = self._calculate_data_loss(original_values,
\* df_anon[column]); anonymization_methods[column] = {"method": ..., ...}
RecordMethod ==
    /\ mask_pc = "masked"
    /\ mask_loss' = CalculateDataLoss(mask_series, mask_output)
    /\ mask_method' = GetAnonymizationMethod(mask_column)
    /\ mask_pc' = "recorded"
    /\ UNCHANGED <<mask_column, mask_series, mask_output, mask_branch, varsEarlier,
                   varsProfile, varsFiles>>

NextMask == MaskColumn \/ RecordMethod

SpecMask == InitMask /\ [][NextMask]_<<varsEarlier, varsLater>>

(***************************************************************************)
(* Claims about the masking of one column (SpecMask).                      *)
(***************************************************************************)
\* the text reads X*...*Y@*...*.tld: two visible characters around a run
\* of asterisks, '@', a run of asterisks, '.', and the rest
HasMaskedEmailForm(text) ==
    LET at == Find("@", text)
        username == SubSeq(text, 1, at - 1)
        domain == SubSeq(text, at + 1, Len(text))
        dot == Find(".", domain)
    IN  /\ at >= 3
        /\ username[1] # "*"
        /\ username[Len(username)] # "*"
        /\ SubSeq(username, 2, Len(username) - 1) = Stars(Len(username) - 2)
        /\ dot >= 1
        /\ SubSeq(domain, 1, dot - 1) = Stars(dot - 1)

\* the nulls of the column are the nulls of the masked column
NullsStayNull ==
    \A i \in 1..Len(mask_series) : IsNa(mask_series[i]) <=> IsNa(mask_output[i])

\* C21: in a column whose name contains 'email', every non-null masked
\* value has the form X*...*Y@*...*.tld (first and last character of the
\* username visible, domain label masked, TLD kept) and every null stays
\* null.
C21_EmailOutputForm ==
    (mask_pc # "flagged" /\ Contains(KwEmail, Lower(mask_column)))
        => /\ NullsStayNull
           /\ \A i \in 1..Len(mask_output) :
                  ~IsNa(mask_output[i]) => HasMaskedEmailForm(Str(mask_output[i]))

\* C22: the data-loss estimate of a column is exactly 0.0 whenever the
\* masked column is identical to the original one, a constant, an all-null
\* and an empty column included.
C22_IdenticalColumnsLoseNothing ==
    /\ CalculateDataLoss(mask_series, mask_series) = Zero
    /\ (mask_pc = "recorded" /\ mask_output = mask_series) => mask_loss = Zero

\* a column of two distinct values that masking left as it was
C22_Witness ==
    /\ mask_pc = "recorded"
    /\ mask_output = mask_series
    /\ Nunique(mask_series) = 2
    /\ TotalLength(mask_series) > 0
    /\ mask_loss = Zero

(***************************************************************************)
(* DataProcessor (src/app/utils/data_processor.py).  A numeric cell is     *)
(* [kind |-> "num", n |-> its integer value]; a float computed from the    *)
(* cells is the rational number it stands for, NanFloat when it is nan.    *)
(***************************************************************************)
\* the most rows of a profiled DataFrame drawn exhaustively
MaxProfileRows == 5

NumCell(n) == [kind |-> "num", n |-> n]

NanFloat == [num |-> 0, den |-> 0]

RatOf(n) == Rat(n, 1)

RatSub(a, b) == RatAdd(a, Rat(-b.num, b.den))

RatMul(a, b) == Rat(a.num * b.num, a.den * b.den)

\* a < b for two floats; False when either is nan
RatLess(a, b) == a # NanFloat /\ b # NanFloat /\ a.num * b.den < b.num * a.den

\* the integers of the non-null cells, in row order
NumbersOf(series) ==
    LET cells == DropNa(series)
    IN  [i \in 1..Len(cells) |-> cells[i].n]

RECURSIVE InsertSorted(_, _)
InsertSorted(x, sorted) ==
    IF Len(sorted) = 0 THEN <<x>>
    ELSE IF x <= Head(sorted) THEN <<x>> \o sorted
    ELSE <<Head(sorted)>> \o InsertSorted(x, Tail(sorted))

RECURSIVE SortNumbers(_)
SortNumbers(numbers) ==
    IF Len(numbers) = 0 THEN <<>>
    ELSE InsertSorted(Head(numbers), SortNumbers(Tail(numbers)))

\* series.quantile(q), interpolation='linear': nulls are skipped, the value
\* at position (n - 1) * q of the sorted values, interpolated between its
\* two neighbours; nan when there is no value
Quantile(series, q) ==
    LET values == SortNumbers(NumbersOf(series))
        n == Len(values)
        position == RatMul(RatOf(n - 1), q)
        below == position.num \div position.den
        fraction == RatSub(position, RatOf(below))
    IN  IF n = 0 THEN NanFloat
        ELSE IF below + 1 >= n THEN RatOf(values[n])
        ELSE RatAdd(RatOf(values[below + 1]),
                    RatMul(RatOf(values[below + 2] - values[below + 1]), fraction))

\* Q1, Q3, IQR, lower_bound and upper_bound of lines 267-272 and 328-332
IqrBounds(series) ==
    LET Q1 == Quantile(series, Rat(1, 4))
        Q3 == Quantile(series, Rat(3, 4))
    IN  IF Q1 = NanFloat
        THEN [Q1 |-> NanFloat, Q3 |-> NanFloat, IQR |-> NanFloat,
              lower_bound |-> NanFloat, upper_bound |-> NanFloat]
        ELSE LET IQR == RatSub(Q3, Q1)
             IN  [Q1 |-> Q1, Q3 |-> Q3, IQR |-> IQR,
                  lower_bound |-> RatSub(Q1, RatMul(Rat(3, 2), IQR)),
                  upper_bound |-> RatAdd(Q3, RatMul(Rat(3, 2), IQR))]

\* a mutation of OutlierMask: the comparisons are not strict
OutlierMaskInclusive(series, bounds) ==
    [i \in 1..Len(series) |->
        /\ ~IsNa(series[i])
        /\ bounds.Q1 # NanFloat
        /\ \/ ~RatLess(bounds.lower_bound, RatOf(series[i].n))
           \/ ~RatLess(RatOf(series[i].n), bounds.upper_bound)]

\* (series < lower_bound) | (series > upper_bound): a comparison with a
\* null cell or a nan bound is False
OutlierMask(series, bounds) ==
    [i \in 1..Len(series) |->
        /\ ~IsNa(series[i])
        /\ \/ RatLess(RatOf(series[i].n), bounds.lower_bound)
           \/ RatLess(bounds.upper_bound, RatOf(series[i].n))]

\* the positions of the rows selected by a boolean mask, in row order
RECURSIVE SelectedFrom(_, _)
SelectedFrom(mask, i) ==
    IF i > Len(mask) THEN <<>>
    ELSE (IF mask[i] THEN <<i>> ELSE <<>>) \o SelectedFrom(mask, i + 1)

Selected(mask) == SelectedFrom(mask, 1)

\* df[column].dtype
ColumnDtype(frame, column) ==
    frame[CHOOSE i \in 1..Len(frame) : frame[i].name = column].dtype

\* df.select_dtypes(include=[np.number]).columns
NumericColumns(frame) ==
    SelectSeq(Columns(frame),
              LAMBDA name : ColumnDtype(frame, name) \in {"int64", "float64"})

\* len(df)
RowCount(frame) == IF Len(frame) = 0 THEN 0 ELSE Len(frame[1].values)

\* lines 274-281: the entry of anomalies["outliers"] for one numeric
\* column; the index of a DataFrame built from a dict is 0, 1, 2, ...
OutlierEntry(frame, col) ==
    LET series == GetColumn(frame, col)
        outliers == Selected(OutlierMask(series, IqrBounds(series)))
    IN  [count |-> Len(outliers),
         percentage |-> Rat(Len(outliers) * 100, RowCount(frame)),
         indices |-> [k \in 1..Len(outliers) |-> outliers[k] - 1]]

\* lines 262-281: anomalies["outliers"]
OutliersOf(frame) ==
    LET numeric_cols == NumericColumns(frame)
        reported ==
            {numeric_cols[k] : k \in {j \in 1..Len(numeric_cols) :
                Len(Selected(OutlierMask(GetColumn(frame, numeric_cols[j]),
                    IqrBounds(GetColumn(frame, numeric_cols[j]))))) > 0}}
    IN  [col \in reported |-> OutlierEntry(frame, col)]

\* lines 283-297: anomalies["missing_patterns"]; the key of a group is the
\* row of df.isnull() its rows share
MissingPatterns(frame) ==
    LET pattern(i) == [c \in 1..Len(frame) |-> IsNa(frame[c].values[i])]
        missing_patterns == {pattern(i) : i \in 1..RowCount(frame)}
    IN  IF Cardinality(missing_patterns) > 1
        THEN [unique_patterns |-> Cardinality(missing_patterns),
              patterns |-> [p \in missing_patterns |->
                  Cardinality({i \in 1..RowCount(frame) : pattern(i) = p})]]
        ELSE <<>>

\* lines 299-316: anomalies["data_quality_issues"], from column c on; a
\* quotient by len(df) = 0 is nan or inf with a warning
RECURSIVE DataQualityIssuesFrom(_, _)
DataQualityIssuesFrom(frame, c) ==
    IF c > Len(frame) THEN <<>>
    ELSE LET series == frame[c].values
             rows == RowCount(frame)
             missing == Len(series) - Len(DropNa(series))
         IN  (IF rows > 0 /\ 2 * missing > rows
              THEN <<[type |-> "high_missing_values", column |-> frame[c].name,
                      percentage |-> Rat(missing * 100, rows)]>>
              ELSE <<>>)
             \o (IF rows > 0 /\ 10 * Nunique(series) > 9 * rows
                 THEN <<[type |-> "high_cardinality", column |-> frame[c].name,
                         percentage |-> Rat(Nunique(series) * 100, rows)]>>
                 ELSE <<>>)
             \o DataQualityIssuesFrom(frame, c + 1)

\* detect_anomalies_general(df); df[col].nunique() of line 310 raises
\* TypeError on a column of lists and nothing catches it
DetectAnomaliesGeneral(frame) ==
    IF \E c \in 1..Len(frame) : \E i \in 1..Len(frame[c].values) :
           frame[c].values[i].kind = "list"
    THEN Raises("TypeError")
    ELSE Returns([outliers |-> OutliersOf(frame),
                  missing_patterns |-> MissingPatterns(frame),
                  data_quality_issues |-> DataQualityIssuesFrom(frame, 1)])

\* detect_anomalies(df, column)
DetectAnomalies(frame, column) ==
    IF ~IsIn(column, Columns(frame)) THEN <<>>
    ELSE LET col_data == DropNa(GetColumn(frame, column))
         IN  IF ColumnDtype(frame, column) \in {"int64", "float64"}
             THEN LET outliers == Selected(OutlierMask(col_data, IqrBounds(col_data)))
                  IN  [k \in 1..Len(outliers) |->
                          [type |-> "outlier", value |-> RatOf(col_data[outliers[k]].n),
                           column |-> column]]
             ELSE <<>>

\* a cell that holds a Python list (a nested JSON array): not null, not
\* hashable
ListCell(s) == [kind |-> "list", s |-> s]

IsHashable(x) == x.kind # "list"

\* df[col].nunique(): hashing a list raises TypeError
NuniqueCall(series) ==
    IF \E i \in 1..Len(series) : ~IsNa(series[i]) /\ ~IsHashable(series[i])
    THEN Raises("TypeError")
    ELSE Returns(Nunique(series))

\* df[col].isna().sum()
MissingCount(series) == Len(series) - Len(DropNa(series))

\* x / len(df) * 100 for a numpy integer x: nan or inf with a warning when
\* len(df) is 0
PercentageOf(x, rows) ==
    IF rows = 0 THEN NanFloat ELSE Rat(x * 100, rows)

\* lines 168-174: col_info; evaluating the dictionary raises what
\* df[col].nunique() raises
ColInfo(frame, col) ==
    LET series == GetColumn(frame, col)
        unique_count == NuniqueCall(series)
    IN  IF unique_count.exc # "none" THEN unique_count
        ELSE Returns([name |-> col,
                      dtype |-> ColumnDtype(frame, col),
                      missing_count |-> MissingCount(series),
                      missing_percentage |-> PercentageOf(MissingCount(series),
                                                          RowCount(frame)),
                      unique_count |-> unique_count.value])

RECURSIVE SumNumbers(_)
SumNumbers(numbers) ==
    IF Len(numbers) = 0 THEN 0 ELSE Head(numbers) + SumNumbers(Tail(numbers))

\* n * sum(x^2) - sum(x)^2, the numerator of the sample variance
RECURSIVE SumSquares(_)
SumSquares(numbers) ==
    IF Len(numbers) = 0 THEN 0
    ELSE Head(numbers) * Head(numbers) + SumSquares(Tail(numbers))

\* df[col].std(): the square root of the sample variance, nan for fewer
\* than two values; the float is named by the rational under the root
StdOf(numbers) ==
    LET n == Len(numbers)
    IN  IF n < 2 THEN NanFloat
        ELSE [sqrt_of |-> Rat(n * SumSquares(numbers)
                              - SumNumbers(numbers) * SumNumbers(numbers), n * (n - 1))]

\* lines 180-188: the statistics of a numeric column
NumericStats(series) ==
    LET numbers == SortNumbers(NumbersOf(series))
        n == Len(numbers)
    IN  IF n = 0
        THEN [min |-> "None", max |-> "None", mean |-> "None", median |-> "None",
              std |-> "None"]
        ELSE [min |-> RatOf(numbers[1]), max |-> RatOf(numbers[n]),
              mean |-> Rat(SumNumbers(numbers), n),
              median |-> Quantile(series, Rat(1, 2)),
              std |-> StdOf(numbers)]

\* a < b for two strings of lower-case letters and digits
RECURSIVE StrLess(_, _)
StrLess(a, b) ==
    IF Len(b) = 0 THEN FALSE
    ELSE IF Len(a) = 0 THEN TRUE
    ELSE IF Head(a) # Head(b) THEN CharCode[Head(a)] < CharCode[Head(b)]
    ELSE StrLess(Tail(a), Tail(b))

\* the number of rows that hold the value
CountOf(series, x) == Cardinality({i \in 1..Len(series) : series[i] = x})

\* lines 196-203: the statistics of a categorical column; value_counts()
\* and mode() leave the nulls out, mode() lists the most frequent values
\* in sorted order.  head(10) keeps every value of a column of at most 10
\* distinct values.
CategoricalStats(series) ==
    LET distinct == {series[i] : i \in {j \in 1..Len(series) : ~IsNa(series[j])}}
        modes == {x \in distinct : \A y \in distinct : CountOf(series, y) <= CountOf(series, x)}
    IN  [top_values |-> [k \in {Str(x) : x \in distinct} |->
                            CountOf(series, StrCell(k))],
         most_common |->
             IF modes = {} THEN "None"
             ELSE Str(CHOOSE x \in modes : \A y \in modes : ~StrLess(Str(y), Str(x)))]

\* lines 179-203, for the int64, float64 and object columns of SpecProfile
ColStats(frame, col) ==
    IF ColumnDtype(frame, col) \in {"int64", "float64"}
    THEN NumericStats(GetColumn(frame, col))
    ELSE CategoricalStats(GetColumn(frame, col))

\* lines 205-217: at most five non-null values, numbers as floats and the
\* rest as text
SampleValues(frame, col) ==
    LET sample_values == Head_(DropNa(GetColumn(frame, col)), 5)
    IN  [i \in 1..Len(sample_values) |->
            IF sample_values[i].kind = "num" THEN RatOf(sample_values[i].n)
            ELSE Str(sample_values[i])]

\* a mutation of ProfileColumn: the unique count is taken after the first
\* three sections were written
ProfileColumnCountsLate(summary, frame, col) ==
    LET col_info == ColInfo(frame, col)
        first ==
            [summary EXCEPT
                !.columns = (col :> [name |-> col, dtype |-> ColumnDtype(frame, col)]) @@ @,
                !.data_types = (col :> ColumnDtype(frame, col)) @@ @,
                !.missing_values = (col :> MissingCount(GetColumn(frame, col))) @@ @]
    IN  IF col_info.exc # "none" THEN first
        ELSE [summary EXCEPT
                !.columns = (col :> col_info.value) @@ @,
                !.data_types = (col :> col_info.value.dtype) @@ @,
                !.missing_values = (col :> col_info.value.missing_count) @@ @,
                !.basic_stats = (col :> ColStats(frame, col)) @@ @,
                !.sample_data = (col :> SampleValues(frame, col)) @@ @]

\* lines 159-223: the body of the for loop for one column; an exception
\* leaves the summary as it is at the statement that raised (except
\* Exception: continue)
ProfileColumn(summary, frame, col) ==
    LET col_info == ColInfo(frame, col)
    IN  IF col_info.exc # "none" THEN summary
        ELSE [summary EXCEPT
                !.columns = (col :> col_info.value) @@ @,
                !.data_types = (col :> col_info.value.dtype) @@ @,
                !.missing_values = (col :> col_info.value.missing_count) @@ @,
                !.basic_stats = (col :> ColStats(frame, col)) @@ @,
                !.sample_data = (col :> SampleValues(frame, col)) @@ @]

\* lines 144-155: the summary before the loop
EmptySummary(frame) ==
    [shape |-> [rows |-> RowCount(frame), columns |-> Len(frame)],
     columns |-> <<>>, data_types |-> <<>>, missing_values |-> <<>>,
     basic_stats |-> <<>>, sample_data |-> <<>>, global_stats |-> <<>>]

\* the for loop of line 158 from column c on
RECURSIVE ProfileColumnsFrom(_, _, _)
ProfileColumnsFrom(summary, frame, c) ==
    IF c > Len(frame) THEN summary
    ELSE ProfileColumnsFrom(ProfileColumn(summary, frame, frame[c].name), frame, c + 1)

RECURSIVE TotalMissing(_, _)
TotalMissing(frame, c) ==
    IF c > Len(frame) THEN 0
    ELSE MissingCount(frame[c].values) + TotalMissing(frame, c + 1)

\* lines 225-232: summary["global_stats"]
GlobalStats(frame) ==
    [total_missing_values |-> TotalMissing(frame, 1),
     missing_percentage |-> PercentageOf(TotalMissing(frame, 1),
                                         RowCount(frame) * Len(frame)),
     numeric_columns |-> Len(NumericColumns(frame)),
     categorical_columns |->
         Cardinality({c \in 1..Len(frame) : frame[c].dtype = "object"}),
     datetime_columns |-> 0]

\* generate_data_summary(df); convert_numpy_types changes the type of the
\* numbers, not their value
GenerateDataSummary(frame) ==
    [ProfileColumnsFrom(EmptySummary(frame), frame, 1)
        EXCEPT !.global_stats = GlobalStats(frame)]

(***************************************************************************)
(* SpecProfile: one call of a DataProcessor method on a DataFrame of       *)
(* int64, float64 and object columns with at least one row.                *)
(***************************************************************************)
ProfileNumbers == {NumCell(1), NumCell(2), NumCell(5), NaN}

\* the series of the outlier example and series with a value on a bound,
\* below the lower bound, and above the upper bound
ProfileExamples ==
    {<<NumCell(1), NumCell(2), NumCell(3), NumCell(4), NumCell(5), NumCell(100)>>,
     <<NumCell(0), NumCell(2), NumCell(2), NumCell(4), NumCell(4), NumCell(7)>>,
     <<NumCell(4), NumCell(-10), NaN, NumCell(4), NumCell(5), NumCell(4), NumCell(30)>>}

ProfileSeries ==
    (StringsUpTo(ProfileNumbers, MaxProfileRows) \ {<<>>}) \cup ProfileExamples

\* the dtype pandas gives a column of numbers: float64 when a value is null
NumericDtype(values) ==
    IF \E i \in 1..Len(values) : IsNa(values[i]) THEN "float64" ELSE "int64"

ValueColumn(values) ==
    [name |-> "value", dtype |-> NumericDtype(values), values |-> values]

\* a column of n texts: a, b, a, ...
LabelColumn(n) ==
    [name |-> "label", dtype |-> "object",
     values |-> [i \in 1..n |-> StrCell(IF i % 2 = 1 THEN <<"a">> ELSE <<"b">>)]]

\* a column of n cells: b, null, b, ...
SparseLabelColumn(n) ==
    [name |-> "label", dtype |-> "object",
     values |-> [i \in 1..n |-> IF i % 2 = 1 THEN StrCell(<<"b">>) ELSE NaN]]

\* a column of n lists, as pd.read_json makes of nested arrays
TagsColumn(n) ==
    [name |-> "tags", dtype |-> "object",
     values |-> [i \in 1..n |-> ListCell(<<"[", "1", ",", " ", "2", "]">>)]]

\* the DataFrames of SpecProfile
ProfileFrames ==
    {<<ValueColumn(s), LabelColumn(Len(s))>> : s \in ProfileSeries}
    \cup {<<SparseLabelColumn(Len(s)), ValueColumn(s)>> : s \in ProfileSeries}
    \cup {<<TagsColumn(Len(s)), ValueColumn(s), LabelColumn(Len(s))>> :
             s \in StringsUpTo(ProfileNumbers, 2) \ {<<>>}}
    \cup {<<ValueColumn(s), TagsColumn(Len(s))>> : s \in ProfileExamples}
    \cup {<<ValueColumn(s), TagsColumn(Len(s)), SparseLabelColumn(Len(s))>> :
             s \in ProfileExamples}

\* the column names detect_anomalies is called with
ProfileColumnNames == {"value", "label", "tags", "other"}

InitProfile ==
    /\ profile_df \in ProfileFrames
    /\ profile_column = "none"
    /\ profile_pc = "start"
    /\ profile_result = Returns(<<>>)
    /\ EarlierNotUsed
    /\ MaskNotUsed
    /\ FilesNotUsed

\* anomalies = DataProcessor.detect_anomalies_general(df)
DetectAnomaliesGeneralCall ==
    /\ profile_pc = "start"
    /\ profile_result' = DetectAnomaliesGeneral(profile_df)
    /\ profile_pc' = "detect_anomalies_general"
    /\ UNCHANGED <<profile_df, profile_column, varsEarlier, varsMask, varsFiles>>

\* anomalies = DataProcessor.detect_anomalies(df, column)
DetectAnomaliesCall ==
    /\ profile_pc = "start"
    /\ \E column \in ProfileColumnNames :
        /\ profile_column' = column
        /\ profile_result' = Returns(DetectAnomalies(profile_df, column))
    /\ profile_pc' = "detect_anomalies"
    /\ UNCHANGED <<profile_df, varsEarlier, varsMask, varsFiles>>

\* summary = DataProcessor.generate_data_summary(df)
GenerateDataSummaryCall ==
    /\ profile_pc = "start"
    /\ profile_result' = Returns(GenerateDataSummary(profile_df))
    /\ profile_pc' = "generate_data_summary"
    /\ UNCHANGED <<profile_df, profile_column, varsEarlier, varsMask, varsFiles>>

NextProfile == DetectAnomaliesGeneralCall \/ DetectAnomaliesCall \/ GenerateDataSummaryCall

SpecProfile == InitProfile /\ [][NextProfile]_<<varsEarlier, varsLater>>

(***************************************************************************)
(* Claims about DataProcessor (SpecProfile).                               *)
(***************************************************************************)
\* four times the k-th quartile (k = 1 or 3) of the non-null values, by
\* linear interpolation at position (n - 1) * k / 4 of the sorted values
Quartile4(series, k) ==
    LET sorted == SortNumbers(NumbersOf(series))
        whole == ((Len(sorted) - 1) * k) \div 4
        quarters == ((Len(sorted) - 1) * k) % 4
    IN  IF quarters = 0 THEN 4 * sorted[whole + 1]
        ELSE 4 * sorted[whole + 1] + quarters * (sorted[whole + 2] - sorted[whole + 1])

\* x lies strictly outside [Q1 - 1.5*IQR, Q3 + 1.5*IQR], both sides of each
\* comparison multiplied by 8
StrictlyOutside(x, series) ==
    LET Q1 == Quartile4(series, 1)
        Q3 == Quartile4(series, 3)
    IN  \/ 8 * x < 2 * Q1 - 3 * (Q3 - Q1)
        \/ 8 * x > 2 * Q3 + 3 * (Q3 - Q1)

\* the rows of the series whose value lies strictly outside the bounds
OutlierRows(series) ==
    {i \in 1..Len(series) : ~IsNa(series[i]) /\ StrictlyOutside(series[i].n, series)}

\* the elements of a set of integers in increasing order
RECURSIVE Ascending(_)
Ascending(set) ==
    IF set = {} THEN <<>>
    ELSE LET least == CHOOSE x \in set : \A y \in set : x <= y
         IN  <<least>> \o Ascending(set \ {least})

OutlierExample ==
    <<NumCell(1), NumCell(2), NumCell(3), NumCell(4), NumCell(5), NumCell(100)>>

\* C23: outlier detection on a numeric column reports exactly the rows
\* whose value lies strictly outside [Q1 - 1.5*IQR, Q3 + 1.5*IQR], Q1 and Q3
\* being linear-interpolation quantiles; count is the number of reported
\* indices and percentage is count / rows * 100; for [1,2,3,4,5,100] Q1 is
\* 2.25, Q3 is 4.75, the bounds are [-1.5, 8.5] and 100 is the only outlier.
C23_OutliersStrictlyOutsideIqrBounds ==
    LET series == GetColumn(profile_df, "value")
        rows == Ascending(OutlierRows(series))
        outliers == profile_result.value.outliers
    IN  /\ (profile_pc = "detect_anomalies_general" /\ profile_result.exc = "none")
            => /\ DOMAIN outliers \subseteq {"value"}
               /\ ("value" \in DOMAIN outliers) <=> (Len(rows) > 0)
               /\ Len(rows) > 0 =>
                    /\ outliers["value"].indices = [k \in 1..Len(rows) |-> rows[k] - 1]
                    /\ outliers["value"].count = Len(outliers["value"].indices)
                    /\ outliers["value"].percentage.num * Len(series)
                           = outliers["value"].count * 100 * outliers["value"].percentage.den
               /\ series = OutlierExample =>
                    /\ IqrBounds(series).Q1 = Rat(225, 100)
                    /\ IqrBounds(series).Q3 = Rat(475, 100)
                    /\ IqrBounds(series).lower_bound = Rat(-15, 10)
                    /\ IqrBounds(series).upper_bound = Rat(85, 10)
                    /\ outliers["value"].indices = <<5>>
        /\ (profile_pc = "detect_anomalies" /\ profile_column = "value")
            => [k \in 1..Len(profile_result.value) |-> profile_result.value[k].value]
                   = [k \in 1..Len(rows) |-> RatOf(series[rows[k]].n)]
        /\ (profile_pc = "detect_anomalies" /\ profile_column # "value")
            => profile_result.value = <<>>

\* the example series: 100, at index 5, is the only row reported
C23_Witness ==
    /\ profile_pc = "detect_anomalies_general"
    /\ profile_result.exc = "none"
    /\ GetColumn(profile_df, "value") = OutlierExample
    /\ profile_result.value.outliers["value"] =
           [count |-> 1, percentage |-> Rat(100, 6), indices |-> <<5>>]

\* the columns whose profile raises: df[col].nunique() cannot hash a list
FailingColumns(frame) ==
    {frame[c].name : c \in {k \in 1..Len(frame) : NuniqueCall(frame[k].values).exc # "none"}}

\* the DataFrame without the columns whose profile raises
WithoutFailing(frame) ==
    SelectSeq(frame, LAMBDA column : column.name \notin FailingColumns(frame))

\* the per-column sections of the summary
SummarySections(summary) ==
    <<summary.columns, summary.data_types, summary.missing_values, summary.basic_stats,
      summary.sample_data>>

\* C24: a profiling failure on one column is column-local:
\* generate_data_summary does not raise, the column whose profile raised is
\* in none of the per-column sections (not in some of them only), and every
\* other column is profiled in full, as it is without the failing column.
C24_ProfilingFailureIsColumnLocal ==
    profile_pc = "generate_data_summary"
        => /\ profile_result.exc = "none"
           /\ \A k \in 1..5 :
                  /\ DOMAIN SummarySections(profile_result.value)[k]
                         = {profile_df[c].name : c \in 1..Len(profile_df)}
                               \ FailingColumns(profile_df)
                  /\ SummarySections(profile_result.value)[k]
                         = SummarySections(GenerateDataSummary(WithoutFailing(profile_df)))[k]

\* a column of lists ahead of two columns that are profiled
C24_Witness ==
    /\ profile_pc = "generate_data_summary"
    /\ Len(profile_df) = 3
    /\ FailingColumns(profile_df) = {profile_df[1].name}
    /\ DOMAIN profile_result.value.columns = {profile_df[2].name, profile_df[3].name}
    /\ DOMAIN profile_result.value.sample_data = {profile_df[2].name, profile_df[3].name}

(***************************************************************************)
(* Claims about analyze_single_file on invalid data (SpecAnalysis).        *)
(***************************************************************************)
\* C25: analyze_single_file called with df = None raises ValueError to the
\* caller; it does not return a result.
C25_NoneRaisesValueError ==
    (analysis_pc = "done" /\ input = NoneValue)
        => /\ response.kind = "raised"
           /\ response.exc = "ValueError"

(***************************************************************************)
(* Claims about the transforms of one column (SpecMask), continued.        *)
(***************************************************************************)
\* the number of digits a digit-window transform keeps at each end
WindowOf(branch) ==
    CASE branch = "_anonymize_phones" -> 2
      [] branch = "_anonymize_ssn" -> 3
      [] branch = "_anonymize_financial" -> 4

\* the characters of the text that are decimal digits, in order
DigitsIn(text) ==
    SelectSeq(text, LAMBDA c : c \in {"0", "1", "2", "3", "4", "5", "6", "7", "8", "9"})

\* out is the digit string d with all but its first k and last k digits
\* replaced by asterisks, or with all of them replaced when len(d) < 2k
IsWindowOf(out, d, k) ==
    /\ Len(out) = Len(d)
    /\ \A j \in 1..Len(d) :
           out[j] = IF Len(d) >= 2 * k /\ (j <= k \/ j > Len(d) - k) THEN d[j] ELSE "*"
    /\ Len(DigitsIn(out)) <= 2 * k

\* C26: digit-window masking (phone k = 2, ssn k = 3, financial k = 4): for
\* every non-null value with digit string d, the output is the first k
\* digits of d, len(d) - 2k asterisks and the last k digits of d when
\* len(d) >= 2k, and len(d) asterisks when len(d) < 2k; the output is as
\* long as d and shows at most 2k digits.
C26_DigitWindowMasking ==
    (mask_pc # "flagged"
     /\ mask_branch \in {"_anonymize_phones", "_anonymize_ssn", "_anonymize_financial"})
        => \A i \in 1..Len(mask_series) :
               ~IsNa(mask_series[i])
                   => IsWindowOf(Str(mask_output[i]), DigitsIn(Str(mask_series[i])),
                                 WindowOf(mask_branch))

\* a value with a separator and exactly 2k digits: all of them stay visible
C26_Witness ==
    /\ mask_pc = "recorded"
    /\ mask_branch = "_anonymize_ssn"
    /\ Len(mask_series) = 1
    /\ ~IsNa(mask_series[1])
    /\ Len(Str(mask_series[1])) > 6
    /\ Str(mask_output[1]) = <<"1", "2", "3", "4", "5", "6">>

\* the text after the last occurrence of character c in s (s when absent)
RECURSIVE AfterLast(_, _)
AfterLast(s, c) ==
    IF Find(c, s) = 0 THEN s ELSE AfterLast(SubSeq(s, Find(c, s) + 1, Len(s)), c)

\* every character of the text but the dots replaced by an asterisk
MaskLabels(text) == [j \in 1..Len(text) |-> IF text[j] = "." THEN "." ELSE "*"]

\* the masked form of a domain: every part before its last dot masked, the
\* suffix after the last dot kept; a domain with no dot is all masked
MaskedDomain(domain) ==
    IF Find(".", domain) = 0 THEN Stars(Len(domain))
    ELSE MaskLabels(SubSeq(domain, 1, Len(domain) - Len(AfterLast(domain, ".")) - 1))
         \o <<".">> \o AfterLast(domain, ".")

\* the masked form of a username: first and last character kept, all
\* masked when it has at most 2 characters
MaskedUsername(username) ==
    IF Len(username) > 2
    THEN <<username[1]>> \o Stars(Len(username) - 2) \o <<username[Len(username)]>>
    ELSE Stars(Len(username))

\* C27: email_masking of a non-null value that contains '@' splits on '@',
\* masks the username keeping only its first and last character (all of it
\* when it has at most 2 characters), masks every part of the domain before
\* its last dot and keeps only the suffix after the last dot, however many
\* dots the domain has.
C27_EmailDomainMaskedToLastDot ==
    (mask_pc # "flagged" /\ mask_branch = "_anonymize_emails")
        => \A i \in 1..Len(mask_series) :
               (~IsNa(mask_series[i]) /\ Find("@", Str(mask_series[i])) > 0)
                   => LET at == Find("@", Str(mask_series[i]))
                          username == SubSeq(Str(mask_series[i]), 1, at - 1)
                          domain == SubSeq(Str(mask_series[i]), at + 1,
                                           Len(Str(mask_series[i])))
                      IN  Str(mask_output[i])
                              = MaskedUsername(username) \o <<"@">> \o MaskedDomain(domain)

\* the output the network rules give a value
NetworkMasked(value) ==
    LET dot_parts == Split(value, ".")
        colon_parts == Split(value, ":")
    IN  IF IsIn(".", value) /\ Len(dot_parts) = 4
        THEN dot_parts[1] \o <<".">> \o dot_parts[2] \o <<".", "*", ".", "*">>
        ELSE IF IsIn(":", value) /\ Len(colon_parts) = 6
        THEN colon_parts[1] \o <<":">> \o colon_parts[2]
             \o <<":", "*", ":", "*", ":", "*", ":", "*">>
        ELSE HashValue(value)

\* C28: network_masking of a non-null value: a value that contains '.' and
\* has exactly 4 dot-parts becomes 'a.b.*.*'; a value that contains ':' and
\* has exactly 6 colon-parts keeps its first two groups and has the other
\* four masked; every other value is replaced by its 8-character hash.  The
\* colon rule applies to any value with 6 colon-parts that did not take the
\* dotted branch, whether or not it also contains a '.'.
C28_NetworkRules ==
    (mask_pc # "flagged" /\ mask_branch = "_anonymize_network")
        => \A i \in 1..Len(mask_series) :
               ~IsNa(mask_series[i])
                   => Str(mask_output[i]) = NetworkMasked(Str(mask_series[i]))

\* the method string that names each transform of _anonymize_column
MethodNaming ==
    [b \in {"_anonymize_emails", "_anonymize_phones", "_anonymize_ssn",
            "_anonymize_financial", "_anonymize_addresses", "_anonymize_network",
            "_anonymize_ids", "_anonymize_generic"} |->
        CASE b = "_anonymize_emails" -> "email_masking"
          [] b = "_anonymize_phones" -> "phone_masking"
          [] b = "_anonymize_ssn" -> "ssn_masking"
          [] b = "_anonymize_financial" -> "financial_masking"
          [] b = "_anonymize_addresses" -> "address_masking"
          [] b = "_anonymize_network" -> "network_masking"
          [] b = "_anonymize_ids" -> "id_mapping"
          [] b = "_anonymize_generic" -> "hash_anonymization"]

\* C29: for every column name, the method recorded for a flagged column in
\* anonymization_methods names the transform _anonymize_column applied to
\* the column: the two keyword chains agree on every name.
C29_MethodNamesAppliedTransform ==
    mask_pc = "recorded" => mask_method = MethodNaming[mask_branch]

\* a name with keywords of two families, postal and ip: the address
\* transform ran and address_masking is recorded
C29_Witness ==
    /\ mask_pc = "recorded"
    /\ Contains(KwPostal, Lower(mask_column))
    /\ Contains(KwIp, Lower(mask_column))
    /\ mask_branch = "_anonymize_addresses"
    /\ mask_method = "address_masking"

(***************************************************************************)
(* SpecFiles: one call of analyze_multiple_files(files_data, question)     *)
(* with the default include_charts = True and anonymize_data = True.       *)
(***************************************************************************)
\* the most files of one call
MaxFiles == 3

\* an integer column label n, as pd.read_csv(header=None) gives: the marker
\* "int", which is no character, ahead of the digits of n
IntLabel(n) == <<"int">> \o IntToStr(n)

IsIntLabel(name) == Len(name) > 0 /\ name[1] = "int"

\* result.get(key): None when the dict has no such key
DictGet(dict, key) == IF key \in DOMAIN dict THEN dict[key] ELSE "None"

\* what analyze_single_file(df, question, ..., anonymize_data=True) returns:
\* the handler's dict when df.copy() (df is None) or col.lower() (an integer
\* label) raises AttributeError in _simple_anonymize, else response_data
\* (lines 121-136), which has no "status" key
AnalyzeSingleFile(frame, answered) ==
    IF frame = NoneValue THEN ExceptReturn("AttributeError")
    ELSE IF \E c \in 1..Len(frame) : IsIntLabel(frame[c].name)
    THEN ExceptReturn("AttributeError")
    ELSE [kind |-> "returned",
          ai_analysis |-> IF answered THEN "content" ELSE "Erreur lors de l'analyse IA",
          privacy_report |-> PrivacyReport(frame, TRUE),
          data_summary |-> DataSummary(frame)]

\* {"filename": filename, "rows": len(df), "columns": len(df.columns)}
FileInfo(file) ==
    [filename |-> file.filename,
     rows |-> Len(file.df[1].values),
     columns |-> Len(file.df)]

\* len([r for r in all_results if r.get("status") == status])
CountStatus(results, status) ==
    Cardinality({i \in 1..Len(results) : DictGet(results[i], "status") = status})

FilesFrames ==
    {ScenarioDataset,
     <<TypedColumn(NameAge, <<IntCell(30)>>)>>,
     <<[name |-> IntLabel(0), values |-> <<IntCell(1), IntCell(2)>>, dtype |-> "int64"],
       [name |-> IntLabel(1), values |-> <<IntCell(3), IntCell(4)>>, dtype |-> "int64"]>>,
     NoneValue}

FileNames == <<<<"a">>, <<"b">>, <<"c">>, <<"d">>>>

InitFiles ==
    /\ \E n \in 0..MaxFiles : \E frames \in [1..n -> FilesFrames] :
           files_data = [i \in 1..n |-> [filename |-> FileNames[i], df |-> frames[i]]]
    /\ file_index = 1
    /\ all_results = <<>>
    /\ files_metadata = <<>>
    /\ files_pc = "loop"
    /\ files_response = [kind |-> "pending"]
    /\ EarlierNotUsed
    /\ MaskNotUsed
    /\ ProfileNotUsed

\* lines 165-205: one iteration of `for filename, df in files_data`.  On
\* None, len(df) of line 175 raises TypeError, and so does len(df) in the
\* handler of line 186: the exception reaches line 223.
AnalyzeFile ==
    /\ files_pc = "loop"
    /\ file_index <= Len(files_data)
    /\ \E answered \in BOOLEAN :
        LET file == files_data[file_index]
            file_result == AnalyzeSingleFile(file.df, answered)
        IN  IF file.df = NoneValue
            THEN /\ files_response' = ExceptReturn("TypeError")
                 /\ files_pc' = "done"
                 /\ UNCHANGED <<file_index, all_results, files_metadata>>
            ELSE /\ all_results' =
                        Append(all_results, [file_info |-> FileInfo(file)] @@ file_result)
                 /\ files_metadata' = Append(files_metadata, FileInfo(file))
                 /\ file_index' = file_index + 1
                 /\ UNCHANGED <<files_pc, files_response>>
    /\ UNCHANGED <<files_data, varsEarlier, varsMask, varsProfile>>

\* lines 207-221: the dict returned after the loop
ReturnFiles ==
    /\ files_pc = "loop"
    /\ file_index > Len(files_data)
    /\ files_response' =
           [kind |-> "returned",
            files_analyzed |-> files_metadata,
            individual_results |-> all_results,
            total_files |-> Len(files_data),
            successful_analyses |-> CountStatus(all_results, "success"),
            failed_analyses |-> CountStatus(all_results, "error"),
            status |-> "success"]
    /\ files_pc' = "done"
    /\ UNCHANGED <<files_data, file_index, all_results, files_metadata, varsEarlier,
                   varsMask, varsProfile>>

NextFiles == AnalyzeFile \/ ReturnFiles

SpecFiles == InitFiles /\ [][NextFiles]_<<varsEarlier, varsLater>>

\* C30: in the result of analyze_multiple_files, successful_analyses +
\* failed_analyses = total_files, successful_analyses being the number of
\* files whose analysis completed without an error and failed_analyses the
\* number of those that returned an error; individual_results has one entry
\* for each input file, in input order.
C30_CountsAddUpToTotalFiles ==
    (files_pc = "done" /\ files_response.status = "success")
        => /\ files_response.successful_analyses + files_response.failed_analyses
                  = files_response.total_files
           /\ files_response.successful_analyses
                  = Cardinality({i \in 1..Len(files_data) :
                        "error" \notin DOMAIN files_response.individual_results[i]})
           /\ files_response.failed_analyses
                  = Cardinality({i \in 1..Len(files_data) :
                        "error" \in DOMAIN files_response.individual_results[i]})
           /\ Len(files_response.individual_results) = Len(files_data)
           /\ \A i \in 1..Len(files_data) :
                  files_response.individual_results[i].file_info.filename
                      = files_data[i].filename

=============================================================================
